---- MODULE Spec2Model ----
(***************************************************************************)
(* Message bridge of ccc: the SQLite message log (db.go), the producers    *)
(* that append rows (hook processes and the chat poller) and the delivery  *)
(* loop of the listener (session.go, deliveryLoop).                        *)
(***************************************************************************)
EXTENDS Integers, Sequences, FiniteSets, TLC

----------------------------------------------------------------------------
(* Bounds of the model *)

MaxId == 3          \* message ids are 1..MaxId
MaxClock == 2       \* wall clock (time.Now().UnixMilli()) runs 1..MaxClock
MaxMsgId == 1       \* chat message ids returned by the chat API are 1..MaxMsgId
MaxFails == 2       \* Spec: the chat API fails at most MaxFails uploads
MaxStoreId == 2     \* StoreSpec: message ids are 1..MaxStoreId
MaxStoreMsgId == 2  \* StoreSpec: chat message ids are 0..MaxStoreMsgId
MaxUpdates == 3
MaxLines == 3       \* TailSpec: a transcript has at most MaxLines lines
LineSmall == 99     \* TailSpec: bytes of a short transcript line, without its newline

(* Program constants *)

maxRetries == 5
tailBytes == 524288
DefaultTailCount == 80

\* config.GroupID: the chat group of the bot is set
GroupID == 100

Ids == 1..MaxId
Producers == {"p1", "p2"}
Sessions == {"a", "b", "c"}
StoreIds == 1..MaxStoreId
MsgIds == 1..MaxMsgId

\* config.Sessions[name].TopicID; session "c" has no chat thread yet
TopicID == [s \in Sessions |-> CASE s = "a" -> 11 [] s = "b" -> 12 [] OTHER -> 0]

\* An API error is modelled by the set of lower-case phrases its message contains.
ErrChatNotFound == {"bad request", "chat not found"}
ErrTooManyRequests == {"too many requests"}
ErrMsgs == {ErrChatNotFound, ErrTooManyRequests}

VARIABLES
  clock,      \* wall clock shared by all processes
  db,         \* table messages: id -> row
  hts,        \* per producer: rec.Timestamp while inside appendMessage, 0 outside
  lpc,        \* position of deliveryLoop
  lsessions,  \* deliveryLoop: sessions still to visit in this cycle
  lsess,      \* deliveryLoop: sessName
  lpending,   \* deliveryLoop: rest of the pending snapshot
  lres,       \* deliveryLoop: result of the upload in flight
  uploads,    \* history: per session, ids uploaded by deliveryLoop, in order
  tries,      \* history: per id, outcome of every upload attempt
  notes,      \* history: per id, notices sent to the chat about the row
  faults,     \* environment: failures the chat API may still answer with
  cfailed,    \* history: ids whose upload failed in the current cycle
  cskipped,   \* history: ids of the snapshot left out by a break in the current cycle
  last,       \* history (StoreSpec): the last statement run on table messages
  tin,        \* tailer: the transcript file and tailCount it is called with
  tout,       \* tailer: what extractRecentAssistantTexts returned
  hin,        \* the hookData a hook process read from stdin, the registry it
              \* loaded and what it derived from them
  config,     \* the session registry file
  hpc,        \* hooks: position of every hook process
  hblocks,    \* hooks: per process, the blocks deliverUnsentTexts still has to handle
  hcycle,     \* hooks: cycles the stop-retry child has finished
  hloc,       \* hooks: per process, the ToolState it loaded
  toolstate,  \* table tool_state: the row of the session
  toolLock,   \* the process that holds the tool-state file lock
  chat,       \* history: what the hooks sent to the chat thread about tools
  pupd,       \* poller: number of the next update
  lsn,        \* the listen processes, ccc.lock and the wake-up channels; history:
              \* the sender of the update taken last, the hooks that inserted an
              \* undelivered row and have not signalled since, the number of
              \* signals the stop-retry child has sent
  pane,       \* the prompt waiting in the session window, and who typed it
  flag,       \* the telegram-active flag file of the session window
  turn,       \* the latest input of the session: who typed it, its age, whether submitted
  otp,        \* config.OTPSecret is set; the OTP request and response files
  grant,      \* the OTP grant file
  decisions   \* history: what every pre-tool hook wrote to stdout

vars == <<clock, db, hts, lpc, lsessions, lsess, lpending, lres,
          uploads, tries, notes, faults, cfailed, cskipped, last, tin, tout, hin, config,
          hpc, hblocks, hcycle, hloc, toolstate, toolLock, chat,
          pupd, lsn, pane, flag, turn, otp, grant, decisions>>

\* the state of the message log and of the delivery loop
bridgeVars == <<clock, db, hts, lpc, lsessions, lsess, lpending, lres,
                uploads, tries, notes, faults, cfailed, cskipped, last>>

\* the state of the hook processes
tailVars == <<tin, tout, hin, config>>
hookVars == <<hpc, hblocks, hcycle, hloc, toolstate, toolLock, chat>>
otpVars == <<otp, grant, decisions>>
others == <<tailVars, hookVars, pupd, lsn, pane, flag, turn, otpVars>>

\* what the stop hook and its child leave alone besides the message log
hookOthers == <<tailVars, pupd, lsn, pane, turn, otpVars>>

loopVars == <<lpc, lsessions, lsess, lpending, lres>>
cycleHist == <<cfailed, cskipped>>
sendHist == <<uploads, tries, notes, faults>>

----------------------------------------------------------------------------
(* db.go *)

Max(a, b) == IF a >= b THEN a ELSE b

boolToInt(b) == IF b THEN 1 ELSE 0

NewRow(rec) ==
  [session |-> rec.session, type |-> rec.type,
   text |-> rec.Text, origin |-> rec.Origin,
   tg_delivered |-> boolToInt(rec.TgDelivered), tg_msg_id |-> rec.TgMsgID,
   retry_count |-> 0, created_at |-> rec.Timestamp]

appendMessage_Replace(d, rec) == (rec.id :> NewRow(rec)) @@ d

\* INSERT ... ON CONFLICT(id) DO UPDATE SET tg_delivered = MAX(..), tg_msg_id = CASE ..
appendMessage(d, rec) ==
  IF rec.id \in DOMAIN d
  THEN [d EXCEPT ![rec.id].tg_delivered = Max(@, boolToInt(rec.TgDelivered)),
                 ![rec.id].tg_msg_id = IF rec.TgMsgID > 0 THEN rec.TgMsgID ELSE @]
  ELSE (rec.id :> NewRow(rec)) @@ d

\* UPDATE messages SET tg_delivered = 1, tg_msg_id = ? WHERE id = ?
markDelivered(d, msgID, tgMsgID) ==
  IF msgID \in DOMAIN d
  THEN [d EXCEPT ![msgID].tg_delivered = 1, ![msgID].tg_msg_id = tgMsgID]
  ELSE d

\* UPDATE messages SET retry_count = retry_count + 1 WHERE id = ?
incRetry(d, msgID) ==
  IF msgID \in DOMAIN d
  THEN [d EXCEPT ![msgID].retry_count = @ + 1]
  ELSE d

\* SELECT tg_delivered FROM messages WHERE id = ?
isDelivered(d, msgID) == msgID \in DOMAIN d /\ d[msgID].tg_delivered # 0

PendingIds_AnyRetry(d, session) ==
  {i \in DOMAIN d : d[i].session = session /\ d[i].tg_delivered = 0}

\* WHERE session = ? AND tg_delivered = 0 AND retry_count < maxRetries
PendingIds(d, session) ==
  {i \in DOMAIN d : /\ d[i].session = session
                    /\ d[i].tg_delivered = 0
                    /\ d[i].retry_count < maxRetries}

\* ORDER BY created_at: every order of S that is ascending in created_at
\* (SQL leaves the order of rows with equal keys open).
RECURSIVE OrderByCreatedAt(_, _)
OrderByCreatedAt(d, S) ==
  IF S = {} THEN {<<>>}
  ELSE UNION {{<<m>> \o t : t \in OrderByCreatedAt(d, S \ {m})} :
              m \in {x \in S : \A y \in S : d[x].created_at <= d[y].created_at}}

MessageRecord(d, i) ==
  [ID |-> i, Type |-> d[i].type, RetryCount |-> d[i].retry_count,
   Timestamp |-> d[i].created_at]

MapRecords(d, ids) == [k \in 1..Len(ids) |-> MessageRecord(d, ids[k])]

\* the possible results of findPending(session)
findPending(d, session) ==
  {MapRecords(d, ids) : ids \in OrderByCreatedAt(d, PendingIds(d, session))}

\* SELECT DISTINCT session FROM messages WHERE tg_delivered = 0
allSessions(d) == {d[i].session : i \in {j \in DOMAIN d : d[j].tg_delivered = 0}}

permanent == {"chat not found", "bot was blocked", "bot was kicked",
              "chat_id is empty", "not enough rights", "peer_id_invalid"}

isPermanentError_Never(errMsg) == FALSE

isPermanentError(errMsg) == \E p \in permanent : p \in errMsg

----------------------------------------------------------------------------
(* helpers *)

RECURSIVE Orders(_)
Orders(S) ==
  IF S = {} THEN {<<>>}
  ELSE UNION {{<<m>> \o t : t \in Orders(S \ {m})} : m \in S}

NoRes == [ok |-> TRUE, id |-> 0, err |-> {}]
SendResults ==
  {[ok |-> TRUE, id |-> m, err |-> {}] : m \in MsgIds} \cup
  {[ok |-> FALSE, id |-> 0, err |-> e] : e \in ErrMsgs}

NoSession == ""

\* the origin the hooks give a row of each kind
HookOrigin(type) == IF type = "user_prompt" THEN "terminal" ELSE "claude"

\* the text of a row, which the id's hash suffix stands for
HookText(id) == <<"text", id>>

\* What the producers pass to appendMessage: the id names the session and the
\* kind of the row (reply:.., prompt:.., notif:.., tool:..).
\*   reply rows     queued by the stop hook, or inserted after a direct send
\*   prompt rows    typed at the terminal
\*   notif and tool rows of the second session
HookRecs(i) ==
  CASE i % 3 = 1 -> {<<"a", "assistant_text", FALSE, 0>>} \cup
                    {<<"a", "assistant_text", TRUE, m>> : m \in MsgIds}
    [] i % 3 = 2 -> {<<"a", "user_prompt", FALSE, 0>>}
    [] OTHER     -> {<<"b", "notification", FALSE, 0>>, <<"b", "tool_call", FALSE, 0>>}

----------------------------------------------------------------------------
(* Spec: producers and the delivery loop, step by step *)

NoStmt == [op |-> "none"]

\* no hook process has run
NoTranscript == [path |-> "", lines |-> <<>>, tailCount |-> 0]
NotRun == [done |-> FALSE, blocks |-> <<>>]
\* the sessions of the registry: name, path, topic and assistant session id
Registry ==
  [n \in Sessions |->
     [Path |-> <<"home", "u", n>>, TopicID |-> TopicID[n],
      ClaudeSessionID |-> "", WindowID |-> ""]]

\* no hook has read its stdin
NoHook == [pc |-> "none"]

TailIdle == tin = NoTranscript /\ tout = NotRun /\ hin = NoHook /\ config = Registry

HookProcs == {"stop", "retry", "h1", "h2"}
NoProc == ""
HooksIdle ==
  /\ hpc = [p \in HookProcs |-> "unborn"]
  /\ hblocks = [p \in HookProcs |-> <<>>]
  /\ hcycle = 0
  /\ hloc = [p \in HookProcs |-> [MsgID |-> 0, Tools |-> <<>>]]
  /\ toolstate = [MsgID |-> 0, Tools |-> <<>>]
  /\ toolLock = NoProc
  /\ chat = <<>>

NoInput == [via |-> "none", old |-> FALSE, started |-> FALSE]
\* config.ChatID, the principal of the bot
ChatID == "owner"

\* the processes started as "ccc listen"
Listeners == {"l1", "l2"}

\* msg.MessageThreadID and msg.Text of the update the poller handled last
NoUpdate == [thread |-> 0, text |-> <<>>]

\* var authInProgress sync.Mutex, var authWaitingCode bool, the goroutines
\* started by "go handleAuth" and "go handleAuthCode" (one per update at
\* most), the Lock and Unlock calls that returned, and whether the runtime
\* has stopped the process
NoAuth ==
  [authInProgress |-> FALSE, authWaitingCode |-> FALSE,
   g |-> [u \in 1..MaxUpdates |-> "none"], locks |-> 0, unlocks |-> 0, crashed |-> FALSE]

\* no listen process has started and ccc.lock does not exist: hooks find no
\* pid to signal, and the ticker alone starts the cycles of a delivery loop
NoListener ==
  [from |-> "none", holders |-> {}, pid |-> "none", pc |-> [l \in Listeners |-> "off"],
   sigCh |-> 0, wake |-> 0, owes |-> {}, due |-> FALSE, kicks |-> 0, heard |-> NoUpdate,
   auth |-> NoAuth]

\* var deliveryNotify = make(chan struct{}, 1)
deliveryNotifyCap == 1

\* sigCh := make(chan os.Signal, 1)
sigChCap == 1

\* notifyListener() of hook p: SIGUSR1 to the pid read from ccc.lock; a
\* process that has not called signal.Notify yet ignores the signal, and
\* the runtime drops it when sigCh is full
notifyListener(l, p) ==
  IF l.pid \in Listeners /\ l.pc[l.pid] = "loop"
  THEN [l EXCEPT !.owes = @ \ {p}, !.sigCh = IF @ < sigChCap THEN @ + 1 ELSE @,
                 !.due = TRUE]
  ELSE [l EXCEPT !.owes = @ \ {p}]

\* hook p has inserted a row; history: with tg_delivered = 0 it owes a signal
\* to the listener, if there is one to signal
Owing(l, p, delivered) ==
  IF delivered \/ (l.pid = "none" /\ \A x \in Listeners : l.pc[x] = "off")
  THEN l
  ELSE [l EXCEPT !.owes = @ \cup {p}]

PollIdle ==
  /\ pupd = 1
  /\ lsn = NoListener
  /\ pane = [via |-> "none", body |-> <<>>]
  /\ flag = "none"
  /\ turn = NoInput

NoOTP == [enabled |-> FALSE, request |-> "none", response |-> "none", listener |-> "idle",
          lopen |-> FALSE, lheard |-> {}, rheard |-> {}, okfor |-> {}, young |-> {}, sawflag |-> {},
          before |-> [p \in HookProcs |-> {}]]
OtpIdle == otp = NoOTP /\ grant = "none" /\ decisions = <<>>

OthersIdle == TailIdle /\ HooksIdle /\ PollIdle /\ OtpIdle

\* the message log is empty and the delivery loop waits
BridgeIdle ==
  /\ clock = 1
  /\ db = <<>>
  /\ hts = [p \in Producers |-> 0]
  /\ lpc = "wait"
  /\ lsessions = <<>>
  /\ lsess = NoSession
  /\ lpending = <<>>
  /\ lres = NoRes
  /\ uploads = [s \in Sessions |-> <<>>]
  /\ tries = [i \in Ids |-> <<>>]
  /\ notes = [i \in Ids |-> <<>>]
  /\ faults = MaxFails
  /\ cfailed = {}
  /\ cskipped = {}
  /\ last = NoStmt

Init == BridgeIdle /\ OthersIdle

\* time passes
Tick ==
  /\ clock < MaxClock
  /\ clock' = clock + 1
  /\ UNCHANGED <<db, hts, loopVars, sendHist, cycleHist, last, others>>

\* appendMessage, first half: rec.Timestamp = time.Now().UnixMilli()
AppendStamp(p) ==
  /\ hts[p] = 0
  /\ hts' = [hts EXCEPT ![p] = clock]
  /\ UNCHANGED <<clock, db, loopVars, sendHist, cycleHist, last, others>>

\* appendMessage, second half: the INSERT .. ON CONFLICT statement
AppendExec(p, id, session, type, delivered, tgMsgID) ==
  /\ hts[p] # 0
  /\ db' = appendMessage(db, [id |-> id, session |-> session, type |-> type,
                              Text |-> HookText(id), Origin |-> HookOrigin(type),
                              TgDelivered |-> delivered, TgMsgID |-> tgMsgID,
                              Timestamp |-> hts[p]])
  /\ hts' = [hts EXCEPT ![p] = 0]
  /\ UNCHANGED <<clock, loopVars, sendHist, cycleHist, last, others>>

\* deliveryLoop: select { case <-ticker.C: case <-deliveryNotify: } starts a
\* cycle; sessions := allSessions()
LoopWakeBy(src) ==
  /\ lpc = "wait"
  /\ src = "notify" => lsn.wake > 0
  /\ lsn' = [lsn EXCEPT !.wake = IF src = "notify" THEN @ - 1 ELSE @, !.due = FALSE]
  /\ \E order \in Orders(allSessions(db)) : lsessions' = order
  /\ lpc' = "sessions"
  /\ UNCHANGED <<clock, db, hts, lsess, lpending, lres, sendHist, cycleHist, last,
                 tailVars, hookVars, pupd, pane, flag, turn, otpVars>>

LoopWake == \E src \in {"tick", "notify"} : LoopWakeBy(src)

\* for _, sessName := range sessions { ...; pending := findPending(sessName)
LoopNextSession ==
  /\ lpc = "sessions"
  /\ IF lsessions = <<>>
     THEN /\ lpc' = "wait"
          /\ cfailed' = {}
          /\ cskipped' = {}
          /\ UNCHANGED <<lsessions, lsess, lpending>>
     ELSE LET sessName == Head(lsessions) IN
          /\ lsessions' = Tail(lsessions)
          /\ UNCHANGED cycleHist
          /\ IF TopicID[sessName] = 0 \/ GroupID = 0
             THEN UNCHANGED <<lpc, lsess, lpending>>
             ELSE /\ \E pending \in findPending(db, sessName) : lpending' = pending
                  /\ lsess' = sessName
                  /\ lpc' = "drain"
  /\ UNCHANGED <<clock, db, hts, lres, sendHist, last, others>>

\* end of for _, msg := range pending
LoopDrainEnd ==
  /\ lpc = "drain"
  /\ lpending = <<>>
  /\ lpc' = "sessions"
  /\ lsess' = NoSession
  /\ UNCHANGED <<clock, db, hts, lsessions, lpending, lres, sendHist, cycleHist, last, others>>

Uploadable == {"user_prompt", "assistant_text", "notification"}

\* default: markDelivered(msg.ID, 0); continue
LoopSkipRow ==
  /\ lpc = "drain"
  /\ lpending # <<>>
  /\ Head(lpending).Type \notin Uploadable
  /\ db' = markDelivered(db, Head(lpending).ID, 0)
  /\ lpending' = Tail(lpending)
  /\ UNCHANGED <<clock, hts, lpc, lsessions, lsess, lres, sendHist, cycleHist, last, others>>

\* what the chat API answered: "chat not found" never goes away, a rate limit does
Outcome(res) ==
  IF res.ok THEN "ok"
  ELSE IF res.err = ErrChatNotFound THEN "permanent" ELSE "transient"

\* tgMsgID, err := sendMessageHTMLGetID(...)
LoopSend ==
  /\ lpc = "drain"
  /\ lpending # <<>>
  /\ LET msg == Head(lpending) IN
     /\ msg.Type \in Uploadable
     /\ \E res \in SendResults :
          /\ res.ok \/ faults > 0
          /\ faults' = IF res.ok THEN faults ELSE faults - 1
          /\ lres' = res
          /\ uploads' = IF res.ok
                        THEN [uploads EXCEPT ![lsess] = Append(@, msg.ID)]
                        ELSE uploads
          /\ tries' = [tries EXCEPT ![msg.ID] = Append(@, Outcome(res))]
  /\ lpc' = "sent"
  /\ UNCHANGED <<clock, db, hts, lsessions, lsess, lpending, notes, cycleHist, last, others>>

\* markDelivered(msg.ID, tgMsgID)
LoopSendOK ==
  /\ lpc = "sent"
  /\ lres.ok
  /\ db' = markDelivered(db, Head(lpending).ID, lres.id)
  /\ lpending' = Tail(lpending)
  /\ lres' = NoRes
  /\ lpc' = "drain"
  /\ UNCHANGED <<clock, hts, lsessions, lsess, sendHist, cycleHist, last, others>>

Notice(kind, n) == [kind |-> kind, n |-> n]

RestAfterFailure_NoBreak(pending) == Tail(pending)

\* the rows left to drain after a failed upload: break
RestAfterFailure(pending) == <<>>

RetryAfter_Stale(msg) == msg.RetryCount

\* retry := msg.RetryCount + 1
RetryAfter(msg) == msg.RetryCount + 1

\* if err != nil { incRetry; retry := msg.RetryCount + 1; ...; break }
LoopSendFail ==
  /\ lpc = "sent"
  /\ ~lres.ok
  /\ LET msg == Head(lpending)
         retry == RetryAfter(msg)
         d1 == incRetry(db, msg.ID)
     IN /\ IF isPermanentError(lres.err)
           THEN /\ db' = markDelivered(d1, msg.ID, 0)
                /\ notes' = [notes EXCEPT ![msg.ID] = Append(@, Notice("dropped_permanent", retry))]
           ELSE IF retry >= maxRetries
           THEN /\ db' = markDelivered(d1, msg.ID, 0)
                /\ notes' = [notes EXCEPT ![msg.ID] = Append(@, Notice("dropped_retries", retry))]
           ELSE IF retry >= 2
           THEN /\ db' = d1
                /\ notes' = [notes EXCEPT ![msg.ID] = Append(@, Notice("send_failed", retry))]
           ELSE /\ db' = d1
                /\ UNCHANGED notes
        /\ lpending' = RestAfterFailure(lpending)
        /\ lpc' = IF RestAfterFailure(lpending) = <<>> THEN "sessions" ELSE "drain"
        /\ lsess' = IF RestAfterFailure(lpending) = <<>> THEN NoSession ELSE lsess
        /\ cfailed' = cfailed \cup {msg.ID}
        /\ cskipped' = cskipped \cup
             {Tail(lpending)[k].ID : k \in (1..Len(Tail(lpending))) \ (1..Len(RestAfterFailure(lpending)))}
  /\ lres' = NoRes
  /\ UNCHANGED <<clock, hts, lsessions, uploads, tries, faults, last, others>>

DeliveryLoop ==
  \/ LoopWake
  \/ LoopNextSession
  \/ LoopDrainEnd
  \/ LoopSkipRow
  \/ LoopSend
  \/ LoopSendOK
  \/ LoopSendFail

Next ==
  \/ Tick
  \/ \E p \in Producers : AppendStamp(p)
  \/ \E p \in Producers, id \in Ids : \E r \in HookRecs(id) :
       AppendExec(p, id, r[1], r[2], r[3], r[4])
  \/ DeliveryLoop

Spec == Init /\ [][Next]_vars

----------------------------------------------------------------------------
(* DrainSpec: the listener started on a message log that already holds     *)
(* rows, with producers that re-append stored ids; the chat API may fail   *)
(* every upload.                                                           *)

Row(session, type, ts) ==
  [session |-> session, type |-> type,
   text |-> <<"text">>, origin |-> HookOrigin(type), tg_delivered |-> 0, tg_msg_id |-> 0,
   retry_count |-> 0, created_at |-> ts]

\* three prompts of one session, created at t = 1, 2, 3
TableThreePrompts ==
  (1 :> Row("a", "user_prompt", 1)) @@ (2 :> Row("a", "user_prompt", 2)) @@
  (3 :> Row("a", "user_prompt", 3))

\* two sessions with a chat thread and one without, a tool_call row
TableMixed ==
  (1 :> Row("a", "assistant_text", 1)) @@ (2 :> Row("b", "tool_call", 1)) @@
  (3 :> Row("c", "notification", 2))

DrainTables == {TableThreePrompts, TableMixed}

DrainInit ==
  /\ OthersIdle
  /\ clock = 1
  /\ db \in DrainTables
  /\ hts = [p \in Producers |-> 0]
  /\ lpc = "wait"
  /\ lsessions = <<>>
  /\ lsess = NoSession
  /\ lpending = <<>>
  /\ lres = NoRes
  /\ uploads = [s \in Sessions |-> <<>>]
  /\ tries = [i \in Ids |-> <<>>]
  /\ notes = [i \in Ids |-> <<>>]
  /\ faults = maxRetries * MaxId
  /\ cfailed = {}
  /\ cskipped = {}
  /\ last = NoStmt

\* the producer that appends stored ids again
ReAppenders == {"p1"}

\* what it passes for the delivered flag and the chat message id
ReAppendArgs == {<<FALSE, 0>>} \cup {<<TRUE, m>> : m \in MsgIds}

DrainNext ==
  \/ \E p \in ReAppenders : AppendStamp(p)
  \/ \E p \in ReAppenders, id \in DOMAIN db, a \in ReAppendArgs :
       AppendExec(p, id, db[id].session, db[id].type, a[1], a[2])
  \/ DeliveryLoop

DrainSpec == DrainInit /\ [][DrainNext]_vars /\ WF_vars(DeliveryLoop)

----------------------------------------------------------------------------
(* StoreSpec: the statements of db.go on table messages, in any order and   *)
(* with any arguments, as the listener and the hook processes issue them.  *)

StoreSessions == {"a", "b"}
StoreTypes == {"assistant_text"}
StoreMsgIds == 0..MaxStoreMsgId
StoreTexts == {"hello world"}
StoreOrigins == {"claude"}

storeOther == <<clock, hts, loopVars, sendHist, cycleHist, others>>

Stmt(op, id, session, text, delivered, tgMsgID, result) ==
  [op |-> op, id |-> id, session |-> session, Text |-> text,
   TgDelivered |-> delivered, TgMsgID |-> tgMsgID, result |-> result]

\* appendMessage(rec) with rec.Timestamp set
StoreAppend(id, session, type, text, origin, delivered, tgMsgID, ts) ==
  /\ db' = appendMessage(db, [id |-> id, session |-> session, type |-> type,
                              Text |-> text, Origin |-> origin,
                              TgDelivered |-> delivered, TgMsgID |-> tgMsgID,
                              Timestamp |-> ts])
  /\ last' = Stmt("appendMessage", id, NoSession, text, delivered, tgMsgID, <<>>)
  /\ UNCHANGED storeOther

\* markDelivered(msgID, tgMsgID)
StoreMarkDelivered(id, tgMsgID) ==
  /\ db' = markDelivered(db, id, tgMsgID)
  /\ last' = Stmt("markDelivered", id, NoSession, "", TRUE, tgMsgID, <<>>)
  /\ UNCHANGED storeOther

\* incRetry(msgID); the caller stops at maxRetries
StoreIncRetry(id) ==
  /\ id \in DOMAIN db => db[id].retry_count < maxRetries
  /\ db' = incRetry(db, id)
  /\ last' = Stmt("incRetry", id, NoSession, "", FALSE, 0, <<>>)
  /\ UNCHANGED storeOther

\* findPending(session)
StoreFindPending(session) ==
  /\ \E result \in findPending(db, session) :
       last' = Stmt("findPending", 0, session, "", FALSE, 0, result)
  /\ UNCHANGED <<db, storeOther>>

StoreNext ==
  \/ \E id \in StoreIds, session \in StoreSessions, type \in StoreTypes,
        text \in StoreTexts, origin \in StoreOrigins,
        delivered \in BOOLEAN, tgMsgID \in StoreMsgIds, ts \in 1..MaxClock :
       StoreAppend(id, session, type, text, origin, delivered, tgMsgID, ts)
  \/ \E id \in StoreIds, tgMsgID \in StoreMsgIds : StoreMarkDelivered(id, tgMsgID)
  \/ \E id \in StoreIds : StoreIncRetry(id)
  \/ \E session \in StoreSessions : StoreFindPending(session)

StoreSpec == Init /\ [][StoreNext]_vars

----------------------------------------------------------------------------
(* UpsertSpec: appendMessage, markDelivered and incRetry on one id, with    *)
(* every field of the appended record varying between calls.               *)

UpsertIds == {1}
UpsertTypes == {"user_prompt", "assistant_text"}
UpsertTexts == {"hello world", "different text"}
UpsertOrigins == {"telegram", "claude"}

UpsertNext ==
  \/ \E id \in UpsertIds, session \in StoreSessions, type \in UpsertTypes,
        text \in UpsertTexts, origin \in UpsertOrigins,
        delivered \in BOOLEAN, tgMsgID \in StoreMsgIds, ts \in 1..MaxClock :
       StoreAppend(id, session, type, text, origin, delivered, tgMsgID, ts)
  \/ \E id \in UpsertIds, tgMsgID \in StoreMsgIds : StoreMarkDelivered(id, tgMsgID)
  \/ \E id \in UpsertIds : StoreIncRetry(id)

UpsertSpec == Init /\ [][UpsertNext]_vars

----------------------------------------------------------------------------
(* TailSpec: extractRecentAssistantTexts on a transcript file               *)

\* A text is a sequence of tokens: white space characters and words.
WhiteSpace == {" ", "\n"}
NoContent == <<"(no content)">>

RECURSIVE TrimLeft(_)
TrimLeft(t) ==
  IF t # <<>> /\ Head(t) \in WhiteSpace THEN TrimLeft(Tail(t)) ELSE t

RECURSIVE TrimRight(_)
TrimRight(t) ==
  IF t # <<>> /\ t[Len(t)] \in WhiteSpace
  THEN TrimRight(SubSeq(t, 1, Len(t) - 1)) ELSE t

\* strings.TrimSpace
TrimSpace(t) == TrimRight(TrimLeft(t))

TextBlock(t) == [type |-> "text", text |-> t]
ToolUse == [type |-> "tool_use", text |-> <<>>]
Thinking == [type |-> "thinking", text |-> <<>>]

\* message.content: a list of blocks, or JSON of another shape
Blocks(bs) == [list |-> TRUE, blocks |-> bs]
NotAList == [list |-> FALSE, blocks |-> <<>>]

Contents ==
  {Blocks(<<TextBlock(<<"partial">>)>>),
   Blocks(<<Thinking, TextBlock(<<" ", "first", "\n">>), ToolUse, TextBlock(<<"second">>)>>),
   Blocks(<<ToolUse>>),
   Blocks(<<TextBlock(<<" ", "(no content)">>), TextBlock(<<" ">>)>>),
   NotAList}

RequestIds == {"req_1", "req_2"}

\* one line of the file as json.Unmarshal reads it into transcriptLine
Line(json, type, role, err, rid, content) ==
  [json |-> json, type |-> type, role |-> role, isApiErrorMessage |-> err,
   requestId |-> rid, content |-> content]

LineShapes ==
  {Line(TRUE, "assistant", "assistant", FALSE, r, c) : r \in RequestIds, c \in Contents} \cup
  {Line(TRUE, "user", "user", FALSE, "", Blocks(<<TextBlock(<<"question">>)>>)),
   Line(TRUE, "assistant", "user", FALSE, "req_1", Blocks(<<TextBlock(<<"role">>)>>)),
   Line(TRUE, "assistant", "assistant", TRUE, "req_1",
        Blocks(<<TextBlock(<<"No response requested.">>)>>)),
   Line(TRUE, "assistant", "assistant", FALSE, "", Blocks(<<TextBlock(<<"norid">>)>>)),
   Line(FALSE, "", "", FALSE, "", NotAList)}

\* bytes of a line without its newline: short, or as long as the tail window
LineSizes == {LineSmall, tailBytes - 1}

\* a line of the file: what it decodes to and how many bytes it takes
FileLines == {[shape |-> sh, size |-> sz] : sh \in LineShapes, sz \in LineSizes}

TranscriptPath == "transcript.jsonl"
Paths == {"", "/nonexistent/path/file.jsonl", TranscriptPath}
TailCounts == {1, 2, DefaultTailCount}

\* the files and arguments extractRecentAssistantTexts is called with
TailInputs ==
  {[path |-> p, lines |-> <<>>, tailCount |-> DefaultTailCount] : p \in Paths} \cup
  {[path |-> TranscriptPath, lines |-> ls, tailCount |-> n] :
     ls \in UNION {[1..k -> FileLines] : k \in 1..MaxLines}, n \in TailCounts}

\* byte offset at which line i starts; every line ends with a newline
RECURSIVE Start(_, _)
Start(lines, i) == IF i <= 1 THEN 0 ELSE Start(lines, i - 1) + lines[i - 1].size + 1

FileSize(lines) == Start(lines, Len(lines) + 1)

\* offset := fi.Size() - tailBytes when the file is larger than tailBytes
Offset(lines) == IF FileSize(lines) > tailBytes THEN FileSize(lines) - tailBytes ELSE 0

\* lines cut off by tailData = tailData[idx+1:], idx the first newline at or
\* after the offset
Skipped(lines) ==
  IF Offset(lines) > 0
  THEN CHOOSE j \in 1..Len(lines) :
         /\ Start(lines, j) + lines[j].size >= Offset(lines)
         /\ \A k \in 1..(j - 1) : Start(lines, k) + lines[k].size < Offset(lines)
  ELSE 0

\* the lines of tailData
Scanned(lines) == SubSeq(lines, Skipped(lines) + 1, Len(lines))

Qualifies_NoErrorCheck(tl) ==
  /\ tl.json
  /\ tl.type = "assistant" /\ tl.role = "assistant"
  /\ tl.requestId # ""

\* the line becomes an entry
Qualifies(tl) ==
  /\ tl.json
  /\ tl.type = "assistant" /\ tl.role = "assistant"
  /\ ~tl.isApiErrorMessage /\ tl.requestId # ""

Entries(lines) ==
  LET q == SelectSeq(lines, LAMBDA l : Qualifies(l.shape))
  IN [k \in 1..Len(q) |-> [requestID |-> q[k].shape.requestId,
                            content |-> q[k].shape.content]]

\* entries = entries[len(entries)-tailCount:]
TakeTail(entries, tailCount) ==
  IF Len(entries) > tailCount
  THEN SubSeq(entries, Len(entries) - tailCount + 1, Len(entries))
  ELSE entries

\* a block whose text is returned: trimmed, not empty, not the sentinel
Keep(b) == b.type = "text" /\ TrimSpace(b.text) # <<>> /\ TrimSpace(b.text) # NoContent

\* texts of an entry; none when content is not a list of blocks
Texts(content) ==
  LET kept == SelectSeq(content.blocks, Keep)
  IN IF content.list THEN [k \in 1..Len(kept) |-> TrimSpace(kept[k].text)] ELSE <<>>

Merge_NoSeen(ordered, rid, texts) ==
  Append(ordered, [requestID |-> rid, texts |-> texts])

\* ordered[idx].texts = texts when the request id was seen, append otherwise
Merge(ordered, rid, texts) ==
  IF \E idx \in 1..Len(ordered) : ordered[idx].requestID = rid
  THEN LET idx == CHOOSE i \in 1..Len(ordered) : ordered[i].requestID = rid
       IN [ordered EXCEPT ![idx].texts = texts]
  ELSE Append(ordered, [requestID |-> rid, texts |-> texts])

\* for _, e := range entries { ... }
RECURSIVE Ordered(_)
Ordered(entries) ==
  IF entries = <<>> THEN <<>>
  ELSE LET e == entries[Len(entries)]
           before == Ordered(SubSeq(entries, 1, Len(entries) - 1))
       IN IF Texts(e.content) = <<>> THEN before
          ELSE Merge(before, e.requestID, Texts(e.content))

\* for _, rt := range ordered { for _, t := range rt.texts { ... } }
RECURSIVE Flatten(_)
Flatten(ordered) ==
  IF ordered = <<>> THEN <<>>
  ELSE [k \in 1..Len(Head(ordered).texts) |->
          [requestID |-> Head(ordered).requestID, text |-> Head(ordered).texts[k]]]
       \o Flatten(Tail(ordered))

extractRecentAssistantTexts(in) ==
  IF in.path = "" THEN <<>>
  ELSE IF in.path # TranscriptPath THEN <<>>
  ELSE Flatten(Ordered(TakeTail(Entries(Scanned(in.lines)), in.tailCount)))

TailInit ==
  /\ BridgeIdle
  /\ HooksIdle
  /\ PollIdle
  /\ OtpIdle
  /\ tin \in TailInputs
  /\ tout = NotRun
  /\ hin = NoHook
  /\ config = Registry

\* a hook process calls extractRecentAssistantTexts(transcriptPath, tailCount)
ExtractTexts ==
  /\ ~tout.done
  /\ tout' = [done |-> TRUE, blocks |-> extractRecentAssistantTexts(tin)]
  /\ UNCHANGED <<tin, hin, config, bridgeVars, hookVars, pupd, lsn, pane, flag, turn, otpVars>>

TailNext == ExtractTexts

TailSpec == TailInit /\ [][TailNext]_vars

----------------------------------------------------------------------------
(* The hook processes of one session: handleStopHook and the stop-retry     *)
(* child it starts                                                         *)

HookSession == "a"

\* contentHash: the first 4 bytes of sha256, as hex; texts may collide
contentHash(t) ==
  CASE t = <<"partial">> -> "0f4e7a11"
    [] t = <<"first">>   -> "a1b2c3d4"
    [] t = <<"second">>  -> "5e6f7081"
    [] OTHER             -> "a1b2c3d4"

\* blockID := fmt.Sprintf("reply:%s:%s", block.requestID, contentHash(block.text))
BlockID(b) == <<"reply", b.requestID, contentHash(b.text)>>

\* the transcript of the session: a streamed reply, or one reply with two
\* text blocks whose hashes collide
FlushTranscripts ==
  {[path |-> TranscriptPath, tailCount |-> DefaultTailCount,
    lines |-> <<[shape |-> Line(TRUE, "assistant", "assistant", FALSE, "req_1",
                               Blocks(<<TextBlock(<<"partial">>)>>)),
                 size |-> LineSmall],
                [shape |-> Line(TRUE, "assistant", "assistant", FALSE, "req_1",
                               Blocks(<<TextBlock(<<"first">>), TextBlock(<<"second">>)>>)),
                 size |-> LineSmall]>>],
   [path |-> TranscriptPath, tailCount |-> DefaultTailCount,
    lines |-> <<[shape |-> Line(TRUE, "assistant", "assistant", FALSE, "req_1",
                               Blocks(<<TextBlock(<<"first">>), TextBlock(<<"final">>)>>)),
                 size |-> LineSmall]>>]}

BlocksOf(in) ==
  {extractRecentAssistantTexts(in)[k] : k \in 1..Len(extractRecentAssistantTexts(in))}

ReplyIds == {BlockID(b) : b \in UNION {BlocksOf(in) : in \in FlushTranscripts}}

\* loadToolState of a session without a tool_state row
NoToolState == [MsgID |-> 0, Tools |-> <<>>]

\* the stop-retry child reads the transcript retryCycles times
retryCycles == 3

\* deliverUnsentTexts(.., duringTools = false), one block: if isDelivered(blockID)
\* { continue }
FlushCheck(p) ==
  /\ hpc[p] = "flush"
  /\ hblocks[p] # <<>>
  /\ IF isDelivered(db, BlockID(Head(hblocks[p])))
     THEN /\ hblocks' = [hblocks EXCEPT ![p] = Tail(@)]
          /\ UNCHANGED hpc
     ELSE /\ hpc' = [hpc EXCEPT ![p] = "clear"]
          /\ UNCHANGED hblocks
  /\ UNCHANGED <<bridgeVars, hcycle, hloc, toolstate, toolLock, chat, flag, hookOthers>>

\* clearToolState(sessName): DELETE FROM tool_state, without the file lock
FlushClear(p) ==
  /\ hpc[p] = "clear"
  /\ toolstate' = NoToolState
  /\ hpc' = [hpc EXCEPT ![p] = "append"]
  /\ UNCHANGED <<bridgeVars, hblocks, hcycle, hloc, toolLock, chat, flag, hookOthers>>

\* appendMessage(&MessageRecord{ID: blockID, .., Origin: "claude"})
FlushAppend(p) ==
  /\ hpc[p] = "append"
  /\ LET b == Head(hblocks[p])
     IN /\ db' = appendMessage(db, [id |-> BlockID(b), session |-> HookSession,
                                    type |-> "assistant_text", Text |-> b.text,
                                    Origin |-> "claude", TgDelivered |-> FALSE,
                                    TgMsgID |-> 0, Timestamp |-> clock])
        /\ last' = Stmt("appendMessage", BlockID(b), HookSession, b.text, FALSE, 0,
                        IF BlockID(b) \in DOMAIN db THEN <<db[BlockID(b)]>> ELSE <<>>)
  /\ lsn' = Owing(lsn, p, FALSE)
  /\ hblocks' = [hblocks EXCEPT ![p] = Tail(@)]
  /\ hpc' = [hpc EXCEPT ![p] = "flush"]
  /\ UNCHANGED <<clock, hts, loopVars, sendHist, cycleHist,
                 hcycle, hloc, toolstate, toolLock, chat, flag, tin, hin, config, tout, pupd, pane, turn, otpVars>>

\* handleStopHook up to the call of deliverUnsentTexts: the turn is over, the
\* telegram-active flag is removed, the transcript is read
StopStart ==
  /\ hpc["stop"] \in {"idle", "done"}
  /\ turn' = NoInput
  /\ flag' = "none"
  /\ hpc' = [hpc EXCEPT !["stop"] = "flush"]
  /\ hblocks' = [hblocks EXCEPT !["stop"] = extractRecentAssistantTexts(tin)]
  /\ UNCHANGED <<bridgeVars, hcycle, hloc, toolstate, toolLock, chat,
                 tin, hin, config, tout, pupd, lsn, pane, otpVars>>

\* handleStopHook after deliverUnsentTexts: clearToolState, notifyListener
\* if sent > 0, then the stop-retry child is started (cmd.Start() may fail)
StopEnd ==
  /\ hpc["stop"] = "flush"
  /\ hblocks["stop"] = <<>>
  /\ toolstate' = NoToolState
  /\ LET l == IF "stop" \in lsn.owes THEN notifyListener(lsn, "stop") ELSE lsn IN
     \/ /\ hpc["retry"] \in {"unborn", "done"}
        /\ hpc' = [hpc EXCEPT !["stop"] = "done", !["retry"] = "sleep"]
        /\ hcycle' = 0
        /\ lsn' = [l EXCEPT !.kicks = 0]
     \/ /\ hpc' = [hpc EXCEPT !["stop"] = "done"]
        /\ lsn' = l
        /\ UNCHANGED hcycle
  /\ UNCHANGED <<bridgeVars, hblocks, hloc, toolLock, chat, flag, tin, hin, config, tout, pupd, pane, turn, otpVars>>

\* handleStopRetry: time.Sleep, then deliverUnsentTexts
RetryWake ==
  /\ hpc["retry"] = "sleep"
  /\ hpc' = [hpc EXCEPT !["retry"] = "flush"]
  /\ hblocks' = [hblocks EXCEPT !["retry"] = extractRecentAssistantTexts(tin)]
  /\ UNCHANGED <<bridgeVars, hcycle, hloc, toolstate, toolLock, chat, flag, hookOthers>>

\* proc.Signal(syscall.SIGUSR1) of the stop-retry child, counted
Kick(l) == IF l.pid \in Listeners THEN [l EXCEPT !.kicks = @ + 1] ELSE l

\* the loop of handleStopRetry with i < 2
RetryCycleEnd_TwoCycles ==
  /\ hpc["retry"] = "flush"
  /\ hblocks["retry"] = <<>>
  /\ lsn' = IF "retry" \in lsn.owes THEN Kick(notifyListener(lsn, "retry")) ELSE lsn
  /\ hcycle' = hcycle + 1
  /\ hpc' = [hpc EXCEPT !["retry"] = IF hcycle + 2 < retryCycles THEN "sleep" ELSE "done"]
  /\ UNCHANGED <<bridgeVars, hblocks, hloc, toolstate, toolLock, chat, flag, tin, hin, config, tout, pupd, pane, turn, otpVars>>

\* handleStopRetry: end of one cycle of for i := 0; i < 3; i++, with
\* notifyListener if n > 0
RetryCycleEnd ==
  /\ hpc["retry"] = "flush"
  /\ hblocks["retry"] = <<>>
  /\ lsn' = IF "retry" \in lsn.owes THEN Kick(notifyListener(lsn, "retry")) ELSE lsn
  /\ hcycle' = hcycle + 1
  /\ hpc' = [hpc EXCEPT !["retry"] = IF hcycle + 1 < retryCycles THEN "sleep" ELSE "done"]
  /\ UNCHANGED <<bridgeVars, hblocks, hloc, toolstate, toolLock, chat, flag, tin, hin, config, tout, pupd, pane, turn, otpVars>>

Flushers == {"stop", "retry"}

----------------------------------------------------------------------------
(* FlushSpec: the stop hook and its stop-retry child flush the transcript   *)
(* of a session while the delivery loop uploads                            *)

\* the tool state the turn left behind: no tool call, a tool message, or a
\* tool message whose upload failed
FlushToolStates ==
  {NoToolState, [MsgID |-> 1, Tools |-> <<"Bash">>], [MsgID |-> 0, Tools |-> <<"Bash">>]}

\* ID: fmt.Sprintf("tool:%s:%s:%d", hookData.SessionID, contentHash(..), time.Now().UnixNano())
ToolRowId == <<"tool", "Bash", 1>>

\* the row the pre-tool hook of the turn stored: TgDelivered: state.MsgID != 0
ToolRows(state) ==
  IF state.Tools = <<>> THEN <<>>
  ELSE appendMessage(<<>>, [id |-> ToolRowId, session |-> HookSession, type |-> "tool_call",
                            Text |-> <<"Bash">>, Origin |-> "claude",
                            TgDelivered |-> state.MsgID # 0, TgMsgID |-> state.MsgID,
                            Timestamp |-> 1])

FlushInit ==
  /\ toolstate \in FlushToolStates
  /\ clock = 1
  /\ db = ToolRows(toolstate)
  /\ hts = [p \in Producers |-> 0]
  /\ lpc = "wait"
  /\ lsessions = <<>>
  /\ lsess = NoSession
  /\ lpending = <<>>
  /\ lres = NoRes
  /\ uploads = [s \in Sessions |-> <<>>]
  /\ tries = [i \in ReplyIds \cup {ToolRowId} |-> <<>>]
  /\ notes = [i \in ReplyIds \cup {ToolRowId} |-> <<>>]
  /\ faults = MaxFails
  /\ cfailed = {}
  /\ cskipped = {}
  /\ last = NoStmt
  /\ tin \in FlushTranscripts
  /\ tout = NotRun
  /\ hin = NoHook
  /\ config = Registry
  /\ hpc = [p \in HookProcs |-> IF p = "stop" THEN "idle" ELSE "unborn"]
  /\ hblocks = [p \in HookProcs |-> <<>>]
  /\ hcycle = 0
  /\ hloc = [p \in HookProcs |-> NoToolState]
  /\ toolLock = NoProc
  /\ chat = <<>>
  /\ PollIdle
  /\ OtpIdle

FlushNext ==
  \/ StopStart
  \/ StopEnd
  \/ RetryWake
  \/ RetryCycleEnd
  \/ \E p \in Flushers : FlushCheck(p)
  \/ \E p \in Flushers : FlushClear(p)
  \/ \E p \in Flushers : FlushAppend(p)
  \/ DeliveryLoop

FlushSpec == FlushInit /\ [][FlushNext]_vars

----------------------------------------------------------------------------
(* PromptSpec: the poller injects chat messages into the session window    *)
(* and the user-prompt hook fires with what arrived there                  *)

\* a text is the sequence of the parts it was formatted from
Captions == {"", "look at this"}
FreeTexts == {<<"fix the bug">>, <<"look at this">>}
Transcriptions == {"fix the bug"}
imgPath == "/tmp/telegram_1.jpg"
destPath == "/home/project/report.pdf"

\* nothing is waiting at the prompt of the session window
NoPrompt == [via |-> "none", body |-> <<>>]

\* SELECT COUNT(*) FROM messages WHERE session = ? AND origin = 'telegram'
\*   AND type = 'user_prompt' AND text = ?
isFromTelegram(d, session, promptText) ==
  \E id \in DOMAIN d :
    /\ d[id].session = session
    /\ d[id].origin = "telegram"
    /\ d[id].type = "user_prompt"
    /\ d[id].text = promptText

\* clearToolState; appendMessage(.., Origin: "telegram", TgDelivered: true);
\* sendToTmuxFromTelegram: the flag is written (no hook has seen this flag),
\* the text is typed
InjectInto(sess, id, stored, typed, u) ==
  /\ pupd <= MaxUpdates
  /\ pane = NoPrompt
  /\ toolstate' = IF sess = HookSession THEN NoToolState ELSE toolstate
  /\ db' = appendMessage(db, [id |-> id, session |-> sess, type |-> "user_prompt",
                              Text |-> stored, Origin |-> "telegram",
                              TgDelivered |-> TRUE, TgMsgID |-> 0, Timestamp |-> clock])
  /\ last' = Stmt("appendMessage", id, sess, stored, TRUE, 0, <<>>)
  /\ flag' = IF sess = HookSession THEN "fresh" ELSE flag
  /\ pane' = IF sess = HookSession THEN [via |-> "chat", body |-> typed] ELSE pane
  /\ turn' = IF sess = HookSession THEN [via |-> "chat", old |-> FALSE, started |-> FALSE]
             ELSE turn
  /\ pupd' = pupd + 1
  /\ lsn' = [lsn EXCEPT !.from = ChatID, !.heard = u]
  /\ otp' = IF sess = HookSession THEN [otp EXCEPT !.sawflag = {}] ELSE otp
  /\ UNCHANGED <<clock, hts, loopVars, sendHist, cycleHist, tin, tout, hin,
                 hpc, hblocks, hcycle, hloc, toolLock, chat, grant, decisions>>

\* a message in the topic of the session whose hooks are followed
Inject(id, stored, typed) ==
  /\ InjectInto(HookSession, id, stored, typed, NoUpdate)
  /\ UNCHANGED config

\* a text message in the topic of the session, unless the listener takes it
\* as the OTP code of a pending request
PollText ==
  /\ ~(otp.enabled /\ otp.request # "none")
  /\ \E text \in FreeTexts : Inject(<<"tg", pupd>>, text, text)

\* a voice message: voiceText is stored and typed
PollVoice ==
  \E transcription \in Transcriptions :
    LET voiceText == <<"[Audio transcription, may contain errors]: ", transcription>>
    IN Inject(<<"tg", pupd, "voice">>, voiceText, voiceText)

\* a photo: Text: caption is stored, fmt.Sprintf("%s %s", caption, imgPath) is typed
PollPhoto ==
  \E c \in Captions :
    LET caption == IF c = "" THEN "Analyze this image:" ELSE c
        prompt == <<caption, " ", imgPath>>
    IN Inject(<<"tg", pupd, "photo">>, <<caption>>, prompt)

\* a document: the caption with the path of the file is stored and typed
PollDocument ==
  \E c \in Captions :
    LET caption == IF c = "" THEN <<"I sent you this file: ", destPath>>
                   ELSE <<c, "\n\nFile: ", destPath>>
    IN Inject(<<"tg", pupd, "doc">>, caption, caption)

\* a media message whose download or transcription failed: nothing is typed
PollFailed ==
  /\ pupd <= MaxUpdates
  /\ pupd' = pupd + 1
  /\ lsn' = [lsn EXCEPT !.from = ChatID]
  /\ UNCHANGED <<bridgeVars, tailVars, hookVars, pane, flag, turn, otpVars>>

\* the user types a prompt at the terminal
TerminalPrompt ==
  /\ pane = NoPrompt
  /\ clock < MaxClock
  /\ \E text \in FreeTexts : pane' = [via |-> "terminal", body |-> text]
  /\ turn' = [via |-> "terminal", old |-> FALSE, started |-> FALSE]
  /\ clock' = clock + 1
  /\ UNCHANGED <<db, hts, loopVars, sendHist, cycleHist, last, tailVars, hookVars,
                 pupd, lsn, flag, otpVars>>

\* handleUserPromptHook with hookData.Prompt the text at the prompt
UserPromptHook ==
  /\ pane # NoPrompt
  /\ toolstate' = NoToolState
  /\ flag' = "none"
  /\ IF isFromTelegram(db, HookSession, pane.body)
     THEN /\ last' = Stmt("isFromTelegram", <<>>, HookSession, pane.body, TRUE, 0, <<pane.via>>)
          /\ UNCHANGED <<db, lsn>>
     ELSE /\ db' = appendMessage(db, [id |-> <<"prompt", clock>>, session |-> HookSession,
                                      type |-> "user_prompt", Text |-> pane.body,
                                      Origin |-> "terminal", TgDelivered |-> FALSE,
                                      TgMsgID |-> 0, Timestamp |-> clock])
          /\ last' = Stmt("appendMessage", <<"prompt", clock>>, HookSession, pane.body,
                          FALSE, 0, <<pane.via>>)
          /\ lsn' = notifyListener(Owing(lsn, "prompt", FALSE), "prompt")
  /\ pane' = NoPrompt
  /\ turn' = [turn EXCEPT !.started = TRUE]
  /\ UNCHANGED <<clock, hts, loopVars, sendHist, cycleHist, tailVars,
                 hpc, hblocks, hcycle, hloc, toolLock, chat, pupd, otpVars>>

PromptInit ==
  /\ BridgeIdle
  /\ TailIdle
  /\ HooksIdle
  /\ PollIdle
  /\ OtpIdle

PromptNext ==
  \/ PollText
  \/ PollVoice
  \/ PollPhoto
  \/ PollDocument
  \/ PollFailed
  \/ TerminalPrompt
  \/ UserPromptHook

PromptSpec == PromptInit /\ [][PromptNext]_vars

----------------------------------------------------------------------------
(* The pre-tool hooks of a turn: handlePermissionHook, one process for     *)
(* every tool call the assistant makes in parallel                         *)

PreToolHooks == {"h1", "h2"}

\* hookData.ToolName of the two calls; neither is AskUserQuestion
ToolName(p) == IF p = "h1" THEN "Bash" ELSE "Read"

\* ids of messages in the chat thread: every message sent gets the next one
NextMsgID == Cardinality({k \in DOMAIN chat : chat[k].op \in {"send", "text"}}) + 1

\* formatToolLines: one line for each entry, a text or a tool
formatToolLines(state) ==
  [i \in DOMAIN state.Tools |->
     IF state.Tools[i] = "text" THEN <<"says", state.Tools[i]>> ELSE <<"runs", state.Tools[i]>>]

\* formatToolMessage: "<blockquote>" + formatToolLines(state) + "</blockquote>"
formatToolMessage(state) == <<"<blockquote>">> \o formatToolLines(state) \o <<"</blockquote>">>

\* Claude Code starts the hook for a tool call of the turn;
\* blocks := extractRecentAssistantTexts(transcriptPath, 80)
PreToolStart(p) ==
  /\ hpc[p] = "unborn"
  /\ turn.started
  /\ hpc' = [hpc EXCEPT ![p] = "texts"]
  /\ hblocks' = [hblocks EXCEPT ![p] = extractRecentAssistantTexts(tin)]
  /\ UNCHANGED <<bridgeVars, hcycle, hloc, toolstate, toolLock, chat, flag, hookOthers>>

\* deliverUnsentTexts(.., duringTools = true), one block: if isDelivered(blockID)
\* { continue }
TextCheck(p) ==
  /\ hpc[p] = "texts"
  /\ hblocks[p] # <<>>
  /\ IF isDelivered(db, BlockID(Head(hblocks[p])))
     THEN /\ hblocks' = [hblocks EXCEPT ![p] = Tail(@)]
          /\ UNCHANGED hpc
     ELSE /\ hpc' = [hpc EXCEPT ![p] = "tlock"]
          /\ UNCHANGED hblocks
  /\ UNCHANGED <<bridgeVars, hcycle, hloc, toolstate, toolLock, chat, flag, hookOthers>>

\* lockToolState; loadToolState; with a live tool message the text becomes an
\* entry of it and the state is saved; unlock
TextLock(p) ==
  /\ hpc[p] = "tlock"
  /\ toolLock = NoProc
  /\ LET state == IF toolstate.MsgID # 0
                  THEN [toolstate EXCEPT !.Tools = Append(@, "text")]
                  ELSE toolstate
     IN /\ hloc' = [hloc EXCEPT ![p] = state]
        /\ toolstate' = state
  /\ hpc' = [hpc EXCEPT ![p] = "tdeliver"]
  /\ UNCHANGED <<bridgeVars, hblocks, hcycle, toolLock, chat, flag, hookOthers>>

\* editMessageHTML of the tool message, or sendMessageHTMLGetID of the text
\* as a message of its own; then appendMessage of the block
TextDeliver(p) ==
  /\ hpc[p] = "tdeliver"
  /\ LET b == Head(hblocks[p]) IN
     IF hloc[p].MsgID # 0
     THEN /\ chat' = Append(chat, [op |-> "edit", id |-> hloc[p].MsgID,
                                   text |-> formatToolMessage(hloc[p])])
          /\ UNCHANGED lsn
          /\ db' = appendMessage(db, [id |-> BlockID(b), session |-> HookSession,
                                      type |-> "assistant_text", Text |-> b.text,
                                      Origin |-> "claude", TgDelivered |-> TRUE,
                                      TgMsgID |-> hloc[p].MsgID, Timestamp |-> clock])
     ELSE \E ok \in BOOLEAN :
          /\ chat' = IF ok THEN Append(chat, [op |-> "text", id |-> NextMsgID]) ELSE chat
          /\ lsn' = Owing(lsn, p, ok)
          /\ db' = appendMessage(db, [id |-> BlockID(b), session |-> HookSession,
                                      type |-> "assistant_text", Text |-> b.text,
                                      Origin |-> "claude", TgDelivered |-> ok,
                                      TgMsgID |-> IF ok THEN NextMsgID ELSE 0,
                                      Timestamp |-> clock])
  /\ hblocks' = [hblocks EXCEPT ![p] = Tail(@)]
  /\ hpc' = [hpc EXCEPT ![p] = "texts"]
  /\ UNCHANGED <<clock, hts, loopVars, sendHist, cycleHist, last,
                 hcycle, hloc, toolstate, toolLock, flag, tin, hin, config, tout, pupd, pane, turn, otpVars>>

\* end of deliverUnsentTexts, or no transcript to read
TextsEnd(p) ==
  /\ hpc[p] = "texts"
  /\ hblocks[p] = <<>>
  /\ hpc' = [hpc EXCEPT ![p] = "lock"]
  /\ UNCHANGED <<bridgeVars, hblocks, hcycle, hloc, toolstate, toolLock, chat, flag, hookOthers>>

\* unlock := lockToolState(sessName); state := loadToolState(sessName);
\* state.Tools = append(state.Tools, ..)
ToolLock(p) ==
  /\ hpc[p] = "lock"
  /\ toolLock = NoProc
  /\ toolLock' = p
  /\ hloc' = [hloc EXCEPT ![p] = [toolstate EXCEPT !.Tools = Append(@, ToolName(p))]]
  /\ hpc' = [hpc EXCEPT ![p] = "show"]
  /\ UNCHANGED <<bridgeVars, hblocks, hcycle, toolstate, chat, flag, hookOthers>>

\* if state.MsgID == 0 { sendMessageHTMLGetID } else { editMessageHTML }
ToolShow(p) ==
  /\ hpc[p] = "show"
  /\ IF hloc[p].MsgID = 0
     THEN \E ok \in BOOLEAN :
          IF ok
          THEN /\ chat' = Append(chat, [op |-> "send", id |-> NextMsgID,
                                        text |-> formatToolMessage(hloc[p])])
               /\ hloc' = [hloc EXCEPT ![p].MsgID = NextMsgID]
          ELSE UNCHANGED <<chat, hloc>>
     ELSE /\ chat' = Append(chat, [op |-> "edit", id |-> hloc[p].MsgID,
                                   text |-> formatToolMessage(hloc[p])])
          /\ UNCHANGED hloc
  /\ hpc' = [hpc EXCEPT ![p] = "save"]
  /\ UNCHANGED <<bridgeVars, hblocks, hcycle, toolstate, toolLock, flag, hookOthers>>

\* saveToolState(sessName, state); unlock()
ToolSave(p) ==
  /\ hpc[p] = "save"
  /\ toolstate' = hloc[p]
  /\ toolLock' = NoProc
  /\ hpc' = [hpc EXCEPT ![p] = "record"]
  /\ UNCHANGED <<bridgeVars, hblocks, hcycle, hloc, chat, flag, hookOthers>>

\* appendMessage of the tool_call row
ToolRecord(p) ==
  /\ hpc[p] = "record"
  /\ db' = appendMessage(db, [id |-> <<"tool", ToolName(p), clock>>, session |-> HookSession,
                              type |-> "tool_call", Text |-> <<ToolName(p)>>,
                              Origin |-> "claude", TgDelivered |-> hloc[p].MsgID # 0,
                              TgMsgID |-> hloc[p].MsgID, Timestamp |-> clock])
  /\ lsn' = Owing(lsn, p, hloc[p].MsgID # 0)
  /\ hpc' = [hpc EXCEPT ![p] = "otp"]
  /\ UNCHANGED <<clock, hts, loopVars, sendHist, cycleHist, last,
                 hblocks, hcycle, hloc, toolstate, toolLock, chat, flag, tin, hin, config, tout, pupd, pane, turn, otpVars>>

\* hasValidOTPGrant without the age of the file
hasValidOTPGrant_AnyAge == grant # "none"

\* time.Since(info.ModTime()) < otpGrantDuration for the grant file
hasValidOTPGrant == grant = "valid"

\* the hooks between the stat of the request file and the end of the wait
InHandshake == {p \in PreToolHooks : hpc[p] \in {"ask", "join", "wait", "late"}}

\* the hooks in waitForOTPResponse: each has written the request file
Waiting == {p \in PreToolHooks : hpc[p] \in {"wait", "late"}}

\* outputPermissionDecision(decision, reason), or return nil without one;
\* heard: the hooks that were in the handshake when the listener took the
\* code that answers this hook; before: the hooks that had returned when this
\* hook entered the handshake; promised: a valid code was taken while this
\* hook and a sibling waited
Decision(p, d, why, heard) ==
  [hook |-> p, decision |-> d, reason |-> why, input |-> turn, flag |-> flag,
   grant |-> grant, heard |-> heard, before |-> otp.before[p],
   promised |-> p \in otp.okfor]

\* the OTP check up to the stat of the request file: auto-allow without OTP,
\* no decision without a recent flag, allow with a valid grant, else
\* alreadyRequested is computed from the request file
OTPCheck(p) ==
  /\ hpc[p] = "otp"
  /\ IF ~otp.enabled
     THEN /\ decisions' = Append(decisions, Decision(p, "allow", "OTP not configured", {}))
          /\ hpc' = [hpc EXCEPT ![p] = "done"]
     ELSE IF flag # "fresh"
     THEN /\ decisions' = Append(decisions, Decision(p, "none", "", {}))
          /\ hpc' = [hpc EXCEPT ![p] = "done"]
     ELSE IF hasValidOTPGrant
     THEN /\ decisions' = Append(decisions, Decision(p, "allow", "OTP grant still valid", {}))
          /\ hpc' = [hpc EXCEPT ![p] = "done"]
     ELSE /\ hpc' = [hpc EXCEPT ![p] = IF otp.request = "fresh" THEN "join" ELSE "ask"]
          /\ UNCHANGED decisions
  /\ otp' = [otp EXCEPT !.before[p] = {q \in PreToolHooks : hpc[q] = "done"},
                        !.sawflag = @ \cup {p}]
  /\ UNCHANGED <<bridgeVars, tailVars, hblocks, hcycle, hloc, toolstate, toolLock, chat,
                 pupd, lsn, pane, flag, turn, grant>>

\* writeOTPRequest, then the permission request is sent unless alreadyRequested
OTPRequest(p) ==
  /\ hpc[p] \in {"ask", "join"}
  /\ otp' = [otp EXCEPT !.request = "fresh", !.young = @ \cup {p}]
  /\ chat' = IF hpc[p] = "join" THEN chat
             ELSE Append(chat, [op |-> "otp", id |-> 0, hook |-> p,
                                with |-> InHandshake])
  /\ hpc' = [hpc EXCEPT ![p] = "wait"]
  /\ UNCHANGED <<bridgeVars, tailVars, hblocks, hcycle, hloc, toolstate, toolLock,
                 pupd, lsn, pane, flag, turn, grant, decisions>>

\* sendMessage(.., "OTP timeout - permission denied")
TimeoutNotice == [op |-> "otp-timeout", id |-> 0]

\* waitForOTPResponse finds a valid grant or reads the response file (a file
\* read while it is being written does not unmarshal), then the decision is
\* written
OTPAnswer(p) ==
  /\ hpc[p] = "wait"
  /\ hasValidOTPGrant \/ otp.response # "none"
  /\ IF hasValidOTPGrant
     THEN /\ otp' = [otp EXCEPT !.request = "none", !.young = @ \ {p}]
          /\ grant' = "valid"
          /\ decisions' = Append(decisions, Decision(p, "allow", "Approved via OTP", {}))
     ELSE /\ otp' = [otp EXCEPT !.request = "none", !.response = "none", !.rheard = {},
                               !.young = @ \ {p}]
          /\ grant' = IF otp.response = "approved" THEN "valid" ELSE grant
          /\ decisions' = Append(decisions,
               CASE otp.response = "approved" ->
                      Decision(p, "allow", "Approved via OTP", otp.rheard)
                 [] otp.response = "denied" ->
                      Decision(p, "deny", "Denied via OTP", otp.rheard)
                 [] OTHER ->
                      Decision(p, "deny", "OTP approval timed out", otp.rheard))
  /\ chat' = IF ~hasValidOTPGrant /\ otp.response = "partial"
             THEN Append(chat, TimeoutNotice) ELSE chat
  /\ hpc' = [hpc EXCEPT ![p] = "done"]
  /\ UNCHANGED <<bridgeVars, tailVars, hblocks, hcycle, hloc, toolstate, toolLock,
                 pupd, lsn, pane, flag, turn>>

\* the last poll of waitForOTPResponse before the deadline, which is
\* otpPermissionTimeout after the hook wrote its request (the flag the hook
\* found is older than otpGrantDuration by then): no valid grant, no response
\* file, time.Sleep
OTPLastPoll(p) ==
  /\ hpc[p] = "wait"
  /\ p \notin otp.young
  /\ flag = "fresh" => p \notin otp.sawflag
  /\ ~hasValidOTPGrant
  /\ otp.response = "none"
  /\ hpc' = [hpc EXCEPT ![p] = "late"]
  /\ UNCHANGED <<bridgeVars, tailVars, hblocks, hcycle, hloc, toolstate, toolLock, chat,
                 pupd, lsn, pane, flag, turn, otpVars>>

\* OTPTimeout without the removal of the request file
OTPTimeout_KeepsRequest(p) ==
  /\ hpc[p] = "late"
  /\ chat' = Append(chat, TimeoutNotice)
  /\ decisions' = Append(decisions, Decision(p, "deny", "OTP approval timed out", {}))
  /\ hpc' = [hpc EXCEPT ![p] = "done"]
  /\ UNCHANGED <<bridgeVars, tailVars, hblocks, hcycle, hloc, toolstate, toolLock,
                 pupd, lsn, pane, flag, turn, grant, otp>>

\* waitForOTPResponse reaches its deadline: the request file is removed, the
\* timeout is reported and denied
OTPTimeout(p) ==
  /\ hpc[p] = "late"
  /\ otp' = [otp EXCEPT !.request = "none"]
  /\ chat' = Append(chat, TimeoutNotice)
  /\ decisions' = Append(decisions, Decision(p, "deny", "OTP approval timed out", {}))
  /\ hpc' = [hpc EXCEPT ![p] = "done"]
  /\ UNCHANGED <<bridgeVars, tailVars, hblocks, hcycle, hloc, toolstate, toolLock,
                 pupd, lsn, pane, flag, turn, grant>>

\* the listener finds a pending request and takes a chat message as its
\* code: valid, invalid, or invalid for the fifth time (otpAttempts carries
\* the failed attempts of earlier requests over)
ListenCodeHeard(vs, u) ==
  /\ otp.enabled
  /\ otp.request # "none"
  /\ otp.listener = "idle"
  /\ pupd <= MaxUpdates
  /\ \E v \in vs :
       otp' = [otp EXCEPT !.listener = IF v = "invalid" THEN "idle" ELSE v,
                          !.lheard = IF v = "invalid" THEN {} ELSE InHandshake,
                          !.okfor = IF v = "approved" /\ Cardinality(Waiting) > 1
                                    THEN @ \cup Waiting
                                    ELSE @]
  /\ pupd' = pupd + 1
  /\ lsn' = [lsn EXCEPT !.from = ChatID, !.heard = u]
  /\ UNCHANGED <<bridgeVars, tailVars, hookVars, pane, flag, turn, grant, decisions>>

ListenCode == ListenCodeHeard({"approved", "denied", "invalid"}, NoUpdate)

\* writeOTPResponse: os.WriteFile creates or truncates the response file
ListenCreate ==
  /\ otp.listener # "idle"
  /\ ~otp.lopen
  /\ otp' = [otp EXCEPT !.response = "partial", !.rheard = otp.lheard, !.lopen = TRUE]
  /\ UNCHANGED <<bridgeVars, tailVars, hookVars, pupd, lsn, pane, flag, turn, grant, decisions>>

\* writeOTPResponse: os.WriteFile writes the response and closes the file;
\* the bytes are lost when a hook removed the file in between
ListenWrite ==
  /\ otp.listener # "idle"
  /\ otp.lopen
  /\ otp' = [otp EXCEPT !.response = IF otp.response = "partial" THEN otp.listener ELSE @,
                        !.listener = "idle", !.lopen = FALSE, !.lheard = {}]
  /\ UNCHANGED <<bridgeVars, tailVars, hookVars, pupd, lsn, pane, flag, turn, grant, decisions>>

\* 30 seconds pass: the request file and the waits that began are no longer
\* recent
RequestAges ==
  /\ otp.request = "fresh" \/ otp.young # {}
  /\ otp' = [otp EXCEPT !.request = IF @ = "fresh" THEN "old" ELSE @, !.young = {}]
  /\ UNCHANGED <<bridgeVars, tailVars, hookVars, pupd, lsn, pane, flag, turn, grant, decisions>>

\* otpGrantDuration passes since the flag was written
FlagAges ==
  /\ turn.via = "chat"
  /\ ~turn.old
  /\ turn' = [turn EXCEPT !.old = TRUE]
  /\ flag' = IF flag = "fresh" THEN "stale" ELSE flag
  /\ UNCHANGED <<bridgeVars, tailVars, hookVars, pupd, lsn, pane, otpVars>>

\* otpGrantDuration passes since the grant was written
GrantExpires ==
  /\ grant = "valid"
  /\ grant' = "expired"
  /\ UNCHANGED <<bridgeVars, tailVars, hookVars, pupd, lsn, pane, flag, turn, otp, decisions>>

----------------------------------------------------------------------------
(* ToolSpec: the pre-tool hooks of a turn run beside the stop-retry child  *)
(* of the turn before and the poller                                       *)

\* the transcript when the tools are called: the turn has written one text
ToolTranscripts ==
  {[path |-> TranscriptPath, tailCount |-> DefaultTailCount,
    lines |-> <<[shape |-> Line(TRUE, "assistant", "assistant", FALSE, "req_1",
                               Blocks(<<TextBlock(<<"partial">>), ToolUse>>)),
                 size |-> LineSmall]>>]}

ToolInit ==
  /\ BridgeIdle
  /\ tin \in ToolTranscripts
  /\ tout = NotRun
  /\ hin = NoHook
  /\ config = Registry
  /\ hpc = [p \in HookProcs |-> IF p = "retry" THEN "sleep" ELSE "unborn"]
  /\ hblocks = [p \in HookProcs |-> <<>>]
  /\ hcycle \in 0..(retryCycles - 1)
  /\ hloc = [p \in HookProcs |-> NoToolState]
  /\ toolstate = NoToolState
  /\ toolLock = NoProc
  /\ chat = <<>>
  /\ pupd = 1
  /\ lsn = NoListener
  /\ pane = NoPrompt
  /\ flag = "none"
  /\ turn \in {[via |-> v, old |-> FALSE, started |-> TRUE] : v \in {"chat", "terminal"}}
  /\ OtpIdle

ToolNext ==
  \/ \E p \in PreToolHooks : PreToolStart(p)
  \/ \E p \in PreToolHooks : TextCheck(p)
  \/ \E p \in PreToolHooks : TextLock(p)
  \/ \E p \in PreToolHooks : TextDeliver(p)
  \/ \E p \in PreToolHooks : TextsEnd(p)
  \/ \E p \in PreToolHooks : ToolLock(p)
  \/ \E p \in PreToolHooks : ToolShow(p)
  \/ \E p \in PreToolHooks : ToolSave(p)
  \/ \E p \in PreToolHooks : ToolRecord(p)
  \/ \E p \in PreToolHooks : OTPCheck(p)
  \/ RetryWake
  \/ FlushCheck("retry")
  \/ FlushClear("retry")
  \/ FlushAppend("retry")
  \/ RetryCycleEnd
  \/ PollVoice

ToolSpec == ToolInit /\ [][ToolNext]_vars

----------------------------------------------------------------------------
(* OtpSpec: prompts arrive from chat and from the terminal, the            *)
(* user-prompt hook starts the turn, the pre-tool hooks ask for permission *)

OtpInit ==
  /\ BridgeIdle
  /\ TailIdle
  /\ HooksIdle
  /\ PollIdle
  /\ otp \in {[NoOTP EXCEPT !.enabled = e] : e \in BOOLEAN}
  /\ grant = "none"
  /\ decisions = <<>>

\* the assistant makes one tool call
OtpNext ==
  \/ PollText
  \/ TerminalPrompt
  \/ UserPromptHook
  \/ PreToolStart("h1")
  \/ TextsEnd("h1")
  \/ ToolLock("h1")
  \/ ToolShow("h1")
  \/ ToolSave("h1")
  \/ ToolRecord("h1")
  \/ OTPCheck("h1")
  \/ OTPRequest("h1")
  \/ OTPAnswer("h1")
  \/ OTPLastPoll("h1")
  \/ OTPTimeout("h1")
  \/ ListenCode
  \/ ListenCreate
  \/ ListenWrite
  \/ RequestAges
  \/ FlagAges
  \/ GrantExpires

OtpSpec == OtpInit /\ [][OtpNext]_vars

----------------------------------------------------------------------------
(* EchoSpec: prompts from chat and from the terminal, each typed when the  *)
(* turn before has ended with its stop hook                                *)

\* the user types at the terminal while the assistant is idle
TerminalPromptIdle == turn = NoInput /\ TerminalPrompt

\* a chat message arrives while the assistant is idle
PollTextIdle == turn = NoInput /\ PollText

\* the assistant ends the turn the prompt started: the stop hook fires
TurnStop == turn.started /\ pane = NoPrompt /\ StopStart

EchoInit ==
  /\ BridgeIdle
  /\ TailIdle
  /\ hpc = [p \in HookProcs |-> IF p = "stop" THEN "idle" ELSE "unborn"]
  /\ hblocks = [p \in HookProcs |-> <<>>]
  /\ hcycle = 0
  /\ hloc = [p \in HookProcs |-> NoToolState]
  /\ toolstate = NoToolState
  /\ toolLock = NoProc
  /\ chat = <<>>
  /\ PollIdle
  /\ OtpIdle

EchoNext ==
  \/ PollTextIdle
  \/ TerminalPromptIdle
  \/ UserPromptHook
  \/ TurnStop
  \/ StopEnd
  \/ RetryWake
  \/ RetryCycleEnd

EchoSpec == EchoInit /\ [][EchoNext]_vars

----------------------------------------------------------------------------
(* HandshakeSpec: two pre-tool hooks of one turn run the OTP handshake     *)
(* while the listener takes a code                                         *)

\* a message row as appendMessage stores it
StoredRow(type, text, origin, delivered, tgMsgID) ==
  NewRow([session |-> HookSession, type |-> type, Text |-> text, Origin |-> origin,
          TgDelivered |-> delivered, TgMsgID |-> tgMsgID, Timestamp |-> 2])

\* a prompt typed at the terminal started the turn; the assistant called Bash
\* and Read in parallel; a text from chat was injected while both pre-tool
\* hooks ran (it cleared the tool state the first one had saved); both hooks
\* have recorded their tool and reach the OTP check
HandshakeInit ==
  /\ clock = 2
  /\ db = (<<"prompt", 2>> :> StoredRow("user_prompt", <<"look at this">>, "terminal", FALSE, 0))
          @@ (<<"tg", 1>> :> StoredRow("user_prompt", <<"look at this">>, "telegram", TRUE, 0))
          @@ (<<"tool", "Bash", 2>> :> StoredRow("tool_call", <<"Bash">>, "claude", FALSE, 0))
          @@ (<<"tool", "Read", 2>> :> StoredRow("tool_call", <<"Read">>, "claude", TRUE, 1))
  /\ hts = [p \in Producers |-> 0]
  /\ lpc = "wait"
  /\ lsessions = <<>>
  /\ lsess = NoSession
  /\ lpending = <<>>
  /\ lres = NoRes
  /\ uploads = [s \in Sessions |-> <<>>]
  /\ tries = [i \in Ids |-> <<>>]
  /\ notes = [i \in Ids |-> <<>>]
  /\ faults = MaxFails
  /\ cfailed = {}
  /\ cskipped = {}
  /\ last = Stmt("appendMessage", <<"tg", 1>>, HookSession, <<"look at this">>, TRUE, 0, <<>>)
  /\ TailIdle
  /\ hpc = [p \in HookProcs |-> IF p \in PreToolHooks THEN "otp" ELSE "unborn"]
  /\ hblocks = [p \in HookProcs |-> <<>>]
  /\ hcycle = 0
  /\ hloc = [p \in HookProcs |->
               CASE p = "h1" -> [MsgID |-> 0, Tools |-> <<"Bash">>]
                 [] p = "h2" -> [MsgID |-> 1, Tools |-> <<"Bash", "Read">>]
                 [] OTHER -> NoToolState]
  /\ toolstate = [MsgID |-> 1, Tools |-> <<"Bash", "Read">>]
  /\ toolLock = NoProc
  /\ chat = <<[id |-> 1, op |-> "send",
               text |-> formatToolMessage([MsgID |-> 0, Tools |-> <<"Bash", "Read">>])]>>
  /\ pupd = 2
  /\ lsn = [NoListener EXCEPT !.from = ChatID]
  /\ pane = [via |-> "chat", body |-> <<"look at this">>]
  /\ flag = "fresh"
  /\ turn = [via |-> "chat", old |-> FALSE, started |-> FALSE]
  /\ otp = [NoOTP EXCEPT !.enabled = TRUE]
  /\ grant = "none"
  /\ decisions = <<>>

HandshakeNext ==
  \/ \E p \in PreToolHooks : OTPCheck(p)
  \/ \E p \in PreToolHooks : OTPRequest(p)
  \/ \E p \in PreToolHooks : OTPAnswer(p)
  \/ \E p \in PreToolHooks : OTPLastPoll(p)
  \/ \E p \in PreToolHooks : OTPTimeout(p)
  \/ ListenCode
  \/ ListenCreate
  \/ ListenWrite
  \/ RequestAges
  \/ FlagAges
  \/ GrantExpires
  \/ UserPromptHook
  \/ PollText

HandshakeSpec == HandshakeInit /\ [][HandshakeNext]_vars

\* the poll loop of a waiting hook
WaitStep(p) == OTPAnswer(p) \/ OTPLastPoll(p) \/ OTPTimeout(p)

\* time passes and every waiting hook process keeps running
HandshakeFair ==
  /\ HandshakeSpec
  /\ WF_vars(RequestAges)
  /\ WF_vars(FlagAges)
  /\ \A p \in PreToolHooks : WF_vars(WaitStep(p))

----------------------------------------------------------------------------
(* AuthSpec: the poller takes updates from the configured principal and    *)
(* from other senders while a turn with one tool call runs                 *)

\* the principal and a sender config.ChatID does not match
\* getSessionByTopic(config, threadID); topic ids are not shared
getSessionByTopic(cfg, topicID) ==
  IF \E n \in DOMAIN cfg : cfg[n].TopicID = topicID
  THEN CHOOSE n \in DOMAIN cfg : cfg[n].TopicID = topicID
  ELSE ""

\* findPendingOTPSession: the session of the first request file found; the
\* hooks of HookSession are the ones that write one
findPendingOTPSession == IF otp.request # "none" THEN HookSession ELSE ""

\* validateOTP(config.OTPSecret, code): the code the authenticator shows now
ValidCode == <<"123456">>
validateOTP(code) == code = ValidCode

Threads == {11, 12}
WindowIDs == {"@1", "@2"}

\* saveConfig(config): the whole document replaces the file
saveConfig(cfg) == cfg

\* a text message that is no command, sent by the principal in a thread of the
\* group: taken as the code of a pending request, else handed to "go
\* handleAuthCode" if /auth waits for its code, else typed into the window of
\* the session of the thread, which is started first (window id w) if gone
ThreadText(thread, text, w) ==
  LET u == [thread |-> thread, text |-> text]
      sessName == getSessionByTopic(config, thread)
  IN IF otp.enabled /\ findPendingOTPSession # ""
     THEN ListenCodeHeard(IF validateOTP(text) THEN {"approved"} ELSE {"denied", "invalid"}, u)
     ELSE IF lsn.auth.authWaitingCode
     THEN /\ pupd <= MaxUpdates
          /\ pupd' = pupd + 1
          /\ lsn' = [lsn EXCEPT !.from = ChatID, !.heard = u, !.auth.g[pupd] = "code"]
          /\ UNCHANGED <<bridgeVars, tailVars, hookVars, pane, flag, turn, otpVars>>
     ELSE IF sessName = ""
     THEN /\ pupd <= MaxUpdates
          /\ pupd' = pupd + 1
          /\ chat' = Append(chat, [op |-> "notice", id |-> 0])
          /\ lsn' = [lsn EXCEPT !.from = ChatID, !.heard = u]
          /\ UNCHANGED <<bridgeVars, tailVars, hpc, hblocks, hcycle, hloc, toolstate, toolLock,
                         pane, flag, turn, otpVars>>
     ELSE /\ w # config[sessName].WindowID
          /\ InjectInto(sessName, <<"tg", pupd>>, text, text, u)
          /\ config' = IF w = "" THEN config
                       ELSE saveConfig([config EXCEPT ![sessName].WindowID = w])

Senders == {ChatID, "stranger"}

\* for everyone: Authorized_Anyone
Authorized_Anyone(from) == TRUE

\* cb.From.ID != config.ChatID, msg.From.ID != config.ChatID: continue
Authorized(from) == from = ChatID

\* offset = update.UpdateID + 1, then continue
PollIgnored(from) ==
  /\ pupd <= MaxUpdates
  /\ pupd' = pupd + 1
  /\ lsn' = [lsn EXCEPT !.from = from]
  /\ UNCHANGED <<bridgeVars, tailVars, hookVars, pane, flag, turn, otpVars>>

\* "/c <shell>": executeCommand, the output is sent to the chat
PollCommand ==
  /\ pupd <= MaxUpdates
  /\ chat' = Append(chat, [op |-> "exec", id |-> 0])
  /\ pupd' = pupd + 1
  /\ lsn' = [lsn EXCEPT !.from = ChatID]
  /\ UNCHANGED <<bridgeVars, tailVars, hpc, hblocks, hcycle, hloc, toolstate, toolLock,
                 pane, flag, turn, otpVars>>

\* a decimal number as a string and back: strconv.Itoa as fmt.Sprintf("%d")
\* writes it, strconv.Atoi with its error dropped (0 for a string that is no
\* number)
Digits == <<"0", "1", "2", "3", "4", "5", "6", "7", "8", "9">>

RECURSIVE Itoa(_)
Itoa(n) == IF n < 10 THEN <<Digits[n + 1]>> ELSE Itoa(n \div 10) \o <<Digits[(n % 10) + 1]>>

RECURSIVE AtoiDigits(_)
AtoiDigits(s) ==
  IF s = <<>> THEN 0
  ELSE 10 * AtoiDigits(SubSeq(s, 1, Len(s) - 1))
       + (CHOOSE d \in 0..9 : Digits[d + 1] = s[Len(s)])

Atoi(s) ==
  IF s # <<>> /\ \A i \in DOMAIN s : \E d \in 1..10 : Digits[d] = s[i]
  THEN AtoiDigits(s) ELSE 0

\* strings.Split(s, ":")
RECURSIVE Split(_)
Split(s) ==
  IF \A i \in DOMAIN s : s[i] # ":" THEN <<s>>
  ELSE LET i == CHOOSE j \in DOMAIN s : s[j] = ":" /\ \A x \in 1..(j - 1) : s[x] # ":"
       IN <<SubSeq(s, 1, i - 1)>> \o Split(SubSeq(s, i + 1, Len(s)))

\* if len(callbackData) > 64 { callbackData = callbackData[:64] }
callbackCap == 64

\* callbackData := fmt.Sprintf("%s:%d:%d:%d", sessName, qIdx, totalQuestions, i)
callbackData(sessName, qIdx, totalQuestions, i) ==
  LET s == sessName \o <<":">> \o Itoa(qIdx) \o <<":">> \o Itoa(totalQuestions)
             \o <<":">> \o Itoa(i)
  IN IF Len(s) > callbackCap THEN SubSeq(s, 1, callbackCap) ELSE s

\* the keys the poller sends for the data of a callback
CallbackKeys(data) ==
  LET parts == Split(data) IN
  IF Len(parts) >= 3
  THEN LET questionIndex == Atoi(parts[2])
           totalQuestions == IF Len(parts) = 4 THEN Atoi(parts[3]) ELSE 0
           optionIndex == IF Len(parts) = 4 THEN Atoi(parts[4]) ELSE Atoi(parts[3])
       IN [i \in 1..optionIndex |-> "Down"] \o <<"Enter">>
          \o (IF totalQuestions > 0 /\ questionIndex = totalQuestions - 1
              THEN <<"Enter">> ELSE <<>>)
  ELSE <<>>

\* a button of a question: the keyboard is removed from the message, the
\* keys that select the option are sent to the window if it exists
PollCallbackData(data, exists) ==
  /\ pupd <= MaxUpdates
  /\ pane = NoPrompt
  /\ chat' = IF Len(Split(data)) >= 3 THEN Append(chat, [op |-> "edit", id |-> 0]) ELSE chat
  /\ pane' = IF exists /\ Len(Split(data)) >= 3
             THEN [via |-> "callback", body |-> CallbackKeys(data)]
             ELSE pane
  /\ pupd' = pupd + 1
  /\ lsn' = [lsn EXCEPT !.from = ChatID]
  /\ UNCHANGED <<bridgeVars, tin, tout, config, hpc, hblocks, hcycle, hloc, toolstate,
                 toolLock, flag, turn, otpVars>>

\* the first option of the first of two questions of session "a"
PollCallback ==
  /\ PollCallbackData(callbackData(<<"a">>, 0, 2, 0), TRUE)
  /\ UNCHANGED hin

\* the question dialog of the assistant takes the keys
DialogTakesKeys ==
  /\ pane.via = "callback"
  /\ pane' = NoPrompt
  /\ UNCHANGED <<bridgeVars, tailVars, hookVars, pupd, lsn, flag, turn, otpVars>>

\* the user-prompt hook fires when a prompt is submitted
PromptSubmitted == pane.via # "callback" /\ UserPromptHook

\* one update of getUpdates, from its sender
Update(from) ==
  IF Authorized(from)
  THEN \/ PollCallback
       \/ PollVoice
       \/ PollPhoto
       \/ PollDocument
       \/ PollFailed
       \/ ListenCode
       \/ PollCommand
       \/ PollText
  ELSE PollIgnored(from)

AuthNext ==
  \/ \E from \in Senders : Update(from)
  \/ ListenCreate
  \/ ListenWrite
  \/ RequestAges
  \/ FlagAges
  \/ PromptSubmitted
  \/ DialogTakesKeys
  \/ PreToolStart("h1")
  \/ TextsEnd("h1")
  \/ ToolLock("h1")
  \/ ToolShow("h1")
  \/ ToolSave("h1")
  \/ ToolRecord("h1")
  \/ OTPCheck("h1")
  \/ OTPRequest("h1")
  \/ OTPAnswer("h1")
  \/ OTPLastPoll("h1")
  \/ OTPTimeout("h1")

AuthSpec == OtpInit /\ [][AuthNext]_vars

----------------------------------------------------------------------------
(* ListenSpec: two processes started as "ccc listen" contend for ccc.lock;  *)
(* the holder runs the delivery loop and the poller, and the notification  *)
(* and compact hooks wake the loop                                         *)

\* everything but the listen processes
notListen == <<bridgeVars, tailVars, hookVars, pupd, pane, flag, turn, otpVars>>

\* the listen processes that have not exited
Alive == {l \in Listeners : lsn.pc[l] \notin {"off", "exit0", "exit1", "gone"}}

\* the listen processes past go deliveryLoop(config), in the loop of getUpdates
Serving == {l \in Listeners : lsn.pc[l] \in {"tasks", "loop"}}

\* syscall.Flock without LOCK_EX: every caller gets the lock
FlockFree_Shared == TRUE

\* syscall.Flock(fd, LOCK_EX|LOCK_NB) returns nil: no other process holds the lock
FlockFree == lsn.holders = {}

\* "ccc listen" is started: os.OpenFile(lockPath, os.O_CREATE|os.O_RDWR, 0600)
ListenOpen(l) ==
  /\ lsn.pc[l] = "off"
  /\ lsn' = [lsn EXCEPT !.pc[l] = "open"]
  /\ UNCHANGED notListen

\* if err := syscall.Flock(..); err != nil { os.Exit(0) }
ListenFlock(l) ==
  /\ lsn.pc[l] = "open"
  /\ lsn' = IF FlockFree
            THEN [lsn EXCEPT !.holders = @ \cup {l}, !.pc[l] = "locked"]
            ELSE [lsn EXCEPT !.pc[l] = "exit0"]
  /\ UNCHANGED notListen

\* lockFile.Truncate(0)
ListenTruncate(l) ==
  /\ lsn.pc[l] = "locked"
  /\ lsn' = [lsn EXCEPT !.pid = "none", !.pc[l] = "truncated"]
  /\ UNCHANGED notListen

\* fmt.Fprintf(lockFile, "%d\n", os.Getpid())
ListenPid(l) ==
  /\ lsn.pc[l] = "truncated"
  /\ lsn' = [lsn EXCEPT !.pid = l, !.pc[l] = "pid"]
  /\ UNCHANGED notListen

\* loadConfig(): an error ends the process and releases the lock; otherwise
\* go deliveryLoop(config) and the loop of getUpdates start
ListenConfig(l) ==
  /\ lsn.pc[l] = "pid"
  /\ \E ok \in BOOLEAN :
       lsn' = IF ok
              THEN [lsn EXCEPT !.pc[l] = "tasks", !.sigCh = 0, !.wake = 0]
              ELSE [lsn EXCEPT !.pc[l] = "exit1", !.holders = @ \ {l}]
  /\ lpc' = "wait"
  /\ lsessions' = <<>>
  /\ lsess' = NoSession
  /\ lpending' = <<>>
  /\ lres' = NoRes
  /\ cfailed' = {}
  /\ cskipped' = {}
  /\ UNCHANGED <<clock, db, hts, sendHist, last, tailVars, hookVars, pupd, pane, flag,
                 turn, otpVars>>

\* deliveryLoop: sigCh := make(chan os.Signal, 1); signal.Notify(sigCh, syscall.SIGUSR1)
ListenNotify(l) ==
  /\ lsn.pc[l] = "tasks"
  /\ lsn' = [lsn EXCEPT !.pc[l] = "loop"]
  /\ UNCHANGED notListen

\* SIGINT or SIGTERM: the process exits, the kernel releases its lock, the
\* pid stays in ccc.lock
ListenKill(l) ==
  /\ l \in Alive
  /\ lsn' = IF l \in Serving
            THEN [lsn EXCEPT !.pc[l] = "gone", !.holders = @ \ {l},
                             !.sigCh = 0, !.wake = 0, !.due = FALSE]
            ELSE [lsn EXCEPT !.pc[l] = "gone", !.holders = @ \ {l}]
  /\ IF l \in Serving
     THEN /\ lpc' = "wait"
          /\ lsessions' = <<>>
          /\ lsess' = NoSession
          /\ lpending' = <<>>
          /\ lres' = NoRes
          /\ cfailed' = {}
          /\ cskipped' = {}
     ELSE UNCHANGED <<loopVars, cycleHist>>
  /\ UNCHANGED <<clock, db, hts, sendHist, last, tailVars, hookVars, pupd, pane, flag,
                 turn, otpVars>>

\* the bridge with a blocking send: deliveryNotify <- struct{}{}
SignalBridge_Blocking ==
  /\ lsn.sigCh > 0
  /\ lsn.wake < deliveryNotifyCap
  /\ lsn' = [lsn EXCEPT !.sigCh = @ - 1, !.wake = @ + 1]
  /\ UNCHANGED notListen

\* for range sigCh { select { case deliveryNotify <- struct{}{}: default: } }
SignalBridge ==
  /\ lsn.sigCh > 0
  /\ lsn' = [lsn EXCEPT !.sigCh = @ - 1,
                        !.wake = IF @ < deliveryNotifyCap THEN @ + 1 ELSE @]
  /\ UNCHANGED notListen

\* the delivery loop of the process that serves
ServingLoop(step) == (\E l \in Listeners : lsn.pc[l] = "loop") /\ step

\* the hookData of a notification: type, message and title
Notifications ==
  {[NotificationType |-> "idle_prompt", Message |-> "", Title |-> ""],
   [NotificationType |-> "permission_prompt", Message |-> "needs permission", Title |-> ""],
   [NotificationType |-> "", Message |-> "", Title |-> ""]}

\* msg of handleNotificationHook: the bell and the first of message, title, type
NotificationMsg(n) ==
  IF n.Message # "" THEN <<"bell ", n.Message>>
  ELSE IF n.Title # "" THEN <<"bell ", n.Title>>
  ELSE IF n.NotificationType # "" THEN <<"bell ", n.NotificationType>>
  ELSE <<>>

\* handleNotificationHook: appendMessage of a notification row, notifyListener
NotificationHook ==
  /\ <<"notif", clock>> \notin DOMAIN db
  /\ \E n \in Notifications :
       IF n.NotificationType = "idle_prompt" \/ NotificationMsg(n) = <<>>
       THEN UNCHANGED <<db, last, lsn>>
       ELSE /\ db' = appendMessage(db, [id |-> <<"notif", clock>>, session |-> HookSession,
                                        type |-> "notification", Text |-> NotificationMsg(n),
                                        Origin |-> "claude", TgDelivered |-> FALSE,
                                        TgMsgID |-> 0, Timestamp |-> clock])
            /\ last' = Stmt("appendMessage", <<"notif", clock>>, HookSession,
                            NotificationMsg(n), FALSE, 0, <<>>)
            /\ lsn' = notifyListener(Owing(lsn, "notif", FALSE), "notif")
  /\ UNCHANGED <<clock, hts, loopVars, sendHist, cycleHist, tailVars, hookVars,
                 pupd, pane, flag, turn, otpVars>>

\* msg of handleCompactHook
CompactMsg(event, trigger) ==
  IF event = "PreCompact"
  THEN <<"Compacting conversation (", IF trigger = "" THEN "auto" ELSE trigger,
         "). Have a cup of coffee.">>
  ELSE <<"Context compacted">>

\* handleCompactHook: appendMessage of a notification row, notifyListener
CompactHook ==
  /\ <<"compact", clock>> \notin DOMAIN db
  /\ \E event \in {"PreCompact", "SessionStart"}, trigger \in {"", "manual"} :
       /\ db' = appendMessage(db, [id |-> <<"compact", clock>>, session |-> HookSession,
                                   type |-> "notification", Text |-> CompactMsg(event, trigger),
                                   Origin |-> "claude", TgDelivered |-> FALSE,
                                   TgMsgID |-> 0, Timestamp |-> clock])
       /\ last' = Stmt("appendMessage", <<"compact", clock>>, HookSession,
                       CompactMsg(event, trigger), FALSE, 0, <<>>)
  /\ lsn' = notifyListener(Owing(lsn, "compact", FALSE), "compact")
  /\ UNCHANGED <<clock, hts, loopVars, sendHist, cycleHist, tailVars, hookVars,
                 pupd, pane, flag, turn, otpVars>>

\* the ids of the rows of ListenSpec
NoticeIds == {<<"notif", 1>>, <<"compact", 1>>, ToolRowId}

ListenInit ==
  /\ clock = 1
  /\ db = ToolRows([MsgID |-> 0, Tools |-> <<"Bash">>])
  /\ hts = [p \in Producers |-> 0]
  /\ lpc = "wait"
  /\ lsessions = <<>>
  /\ lsess = NoSession
  /\ lpending = <<>>
  /\ lres = NoRes
  /\ uploads = [s \in Sessions |-> <<>>]
  /\ tries = [i \in NoticeIds |-> <<>>]
  /\ notes = [i \in NoticeIds |-> <<>>]
  /\ faults = 1
  /\ cfailed = {}
  /\ cskipped = {}
  /\ last = NoStmt
  /\ OthersIdle

ListenNext ==
  \/ \E l \in Listeners : ListenOpen(l)
  \/ \E l \in Listeners : ListenFlock(l)
  \/ \E l \in Listeners : ListenTruncate(l)
  \/ \E l \in Listeners : ListenPid(l)
  \/ \E l \in Listeners : ListenConfig(l)
  \/ \E l \in Listeners : ListenNotify(l)
  \/ \E l \in Listeners : ListenKill(l)
  \/ SignalBridge
  \/ ServingLoop(LoopWakeBy("tick"))
  \/ ServingLoop(LoopWakeBy("notify"))
  \/ ServingLoop(LoopNextSession)
  \/ ServingLoop(LoopDrainEnd)
  \/ ServingLoop(LoopSkipRow)
  \/ ServingLoop(LoopSend)
  \/ ServingLoop(LoopSendOK)
  \/ ServingLoop(LoopSendFail)
  \/ NotificationHook
  \/ CompactHook

ListenSpec == ListenInit /\ [][ListenNext]_vars

\* the bridge, the wake-up case of the select and the body of a cycle are
\* scheduled; the ticker is not assumed
ListenFair ==
  /\ ListenSpec
  /\ WF_vars(SignalBridge)
  /\ WF_vars(ServingLoop(LoopWakeBy("notify")))
  /\ WF_vars(ServingLoop(LoopNextSession \/ LoopDrainEnd \/ LoopSkipRow \/ LoopSend
                          \/ LoopSendOK \/ LoopSendFail))

----------------------------------------------------------------------------
(* NotifySpec: the hooks of one turn, typed at the terminal, insert rows    *)
(* while a listener serves                                                 *)

\* the listener l1 holds the lock, has written its pid and is in the select
\* of the delivery loop
OneListener ==
  [NoListener EXCEPT !.holders = {"l1"}, !.pid = "l1", !.pc["l1"] = "loop"]

NotifyInit ==
  /\ BridgeIdle
  /\ tin \in ToolTranscripts
  /\ tout = NotRun
  /\ hin = NoHook
  /\ config = Registry
  /\ hpc = [p \in HookProcs |-> IF p = "stop" THEN "idle" ELSE "unborn"]
  /\ hblocks = [p \in HookProcs |-> <<>>]
  /\ hcycle = 0
  /\ hloc = [p \in HookProcs |-> NoToolState]
  /\ toolstate = NoToolState
  /\ toolLock = NoProc
  /\ chat = <<>>
  /\ pupd = 1
  /\ lsn = OneListener
  /\ pane = NoPrompt
  /\ flag = "none"
  /\ turn = NoInput
  /\ OtpIdle

NotifyNext ==
  \/ TerminalPromptIdle
  \/ UserPromptHook
  \/ PreToolStart("h1")
  \/ TextCheck("h1")
  \/ TextLock("h1")
  \/ TextDeliver("h1")
  \/ TextsEnd("h1")
  \/ ToolLock("h1")
  \/ ToolShow("h1")
  \/ ToolSave("h1")
  \/ ToolRecord("h1")
  \/ OTPCheck("h1")
  \/ TurnStop
  \/ \E p \in Flushers : FlushCheck(p)
  \/ \E p \in Flushers : FlushClear(p)
  \/ \E p \in Flushers : FlushAppend(p)
  \/ StopEnd
  \/ RetryWake
  \/ RetryCycleEnd
  \/ NotificationHook
  \/ CompactHook
  \/ SignalBridge

NotifySpec == NotifyInit /\ [][NotifyNext]_vars

----------------------------------------------------------------------------
(* RetrySpec: the stop hook of a turn and its stop-retry child, while a     *)
(* listener serves; the texts of the transcript are new or already sent    *)

\* the rows of the texts of a transcript, as the delivery loop leaves them
SentReplies(in) ==
  [id \in {BlockID(b) : b \in BlocksOf(in)} |->
     StoredRow("assistant_text", (CHOOSE b \in BlocksOf(in) : BlockID(b) = id).text,
               "claude", TRUE, 1)]

RetryInit ==
  /\ clock = 2
  /\ tin \in FlushTranscripts \cup ToolTranscripts
  /\ db \in {<<>>, SentReplies(tin)}
  /\ hts = [p \in Producers |-> 0]
  /\ lpc = "wait"
  /\ lsessions = <<>>
  /\ lsess = NoSession
  /\ lpending = <<>>
  /\ lres = NoRes
  /\ uploads = [s \in Sessions |-> <<>>]
  /\ tries = [i \in ReplyIds |-> <<>>]
  /\ notes = [i \in ReplyIds |-> <<>>]
  /\ faults = MaxFails
  /\ cfailed = {}
  /\ cskipped = {}
  /\ last = NoStmt
  /\ tout = NotRun
  /\ hin = NoHook
  /\ config = Registry
  /\ hpc = [p \in HookProcs |-> IF p = "stop" THEN "idle" ELSE "unborn"]
  /\ hblocks = [p \in HookProcs |-> <<>>]
  /\ hcycle = 0
  /\ hloc = [p \in HookProcs |-> NoToolState]
  /\ toolstate = NoToolState
  /\ toolLock = NoProc
  /\ chat = <<>>
  /\ pupd = 1
  /\ lsn = OneListener
  /\ pane = NoPrompt
  /\ flag = "none"
  /\ turn = [via |-> "terminal", old |-> FALSE, started |-> TRUE]
  /\ OtpIdle

\* one step of the stop-retry child
RetryStep ==
  \/ RetryWake
  \/ FlushCheck("retry")
  \/ FlushClear("retry")
  \/ FlushAppend("retry")
  \/ RetryCycleEnd

RetryNext ==
  \/ StopStart
  \/ FlushCheck("stop")
  \/ FlushClear("stop")
  \/ FlushAppend("stop")
  \/ StopEnd
  \/ RetryStep
  \/ SignalBridge

RetrySpec == RetryInit /\ [][RetryNext]_vars

\* the child is a process of its own: it keeps running
RetryFair == RetrySpec /\ WF_vars(RetryStep)

----------------------------------------------------------------------------
(* SummarySpec: the pre-tool hook summarizes the input of a tool call       *)

\* truncAt := 80
truncAt == 80

\* if len(preview) > 40
previewAt == 40

\* a string of n characters c
Rep(c, n) == [i \in 1..n |-> c]

\* trunc := func(s string) string
trunc(s) == IF Len(s) > truncAt THEN SubSeq(s, 1, truncAt) \o <<".", ".", ".">> ELSE s

\* strings.ReplaceAll(preview, newline, return sign); "ret" is the return sign
\* and "bq" the backquote, one character each
ReplaceNewlines(s) == [i \in 1..Len(s) |-> IF s[i] = "\n" THEN "ret" ELSE s[i]]

\* toolInputSummary(hookData)
toolInputSummary(hookData) ==
  LET in == hookData.ToolInput IN
  CASE hookData.ToolName = "Bash" -> trunc(in.Command)
    [] hookData.ToolName \in {"Read", "Write"} -> in.FilePath
    [] hookData.ToolName = "Edit" ->
         IF in.OldString # <<>>
         THEN LET preview == IF Len(in.OldString) > previewAt
                             THEN SubSeq(in.OldString, 1, previewAt) \o <<".", ".", ".">>
                             ELSE in.OldString
              IN in.FilePath \o <<" ", "bq">> \o ReplaceNewlines(preview) \o <<"bq">>
         ELSE in.FilePath
    [] hookData.ToolName \in {"Grep", "Glob"} ->
         IF in.Pattern # <<>> THEN trunc(in.Pattern) ELSE in.Description
    [] hookData.ToolName = "WebSearch" -> trunc(in.Query)
    [] hookData.ToolName = "WebFetch" -> trunc(in.URL)
    [] hookData.ToolName = "Task" -> trunc(in.Description)
    [] OTHER -> IF in.Description # <<>> THEN trunc(in.Description) ELSE <<>>

\* the tools of a call; "LS" takes the default case
ToolNames == {"Bash", "Read", "Write", "Edit", "Grep", "Glob", "WebSearch", "WebFetch",
              "Task", "LS"}

\* the lengths of the strings of a tool input
MaxText == 82
TextLens == {0, 1, previewAt, previewAt + 1, truncAt, truncAt + 1, MaxText}

\* the field of the input a tool is summarized by, and the second field of
\* Edit, Grep and Glob
NoToolInput == [Command |-> <<>>, FilePath |-> <<>>, OldString |-> <<>>, Pattern |-> <<>>,
              Description |-> <<>>, Query |-> <<>>, URL |-> <<>>]

ToolInputs(name) ==
  LET Strs == {Rep(c, n) : c \in {"a", "\n"}, n \in TextLens} IN
  CASE name = "Bash" -> {[NoToolInput EXCEPT !.Command = s] : s \in Strs}
    [] name \in {"Read", "Write"} -> {[NoToolInput EXCEPT !.FilePath = s] : s \in Strs}
    [] name = "Edit" ->
         {[NoToolInput EXCEPT !.FilePath = s, !.OldString = t] : s \in Strs, t \in Strs}
    [] name \in {"Grep", "Glob"} ->
         {[NoToolInput EXCEPT !.Pattern = s, !.Description = t] : s \in Strs, t \in Strs}
    [] name = "WebSearch" -> {[NoToolInput EXCEPT !.Query = s] : s \in Strs}
    [] name = "WebFetch" -> {[NoToolInput EXCEPT !.URL = s] : s \in Strs}
    [] OTHER -> {[NoToolInput EXCEPT !.Description = s] : s \in Strs}

SummaryInit ==
  /\ BridgeIdle
  /\ HooksIdle
  /\ PollIdle
  /\ OtpIdle
  /\ tin = NoTranscript
  /\ tout = NotRun
  /\ config = Registry
  /\ \E name \in ToolNames : \E in \in ToolInputs(name) :
       hin = [pc |-> "summary", ToolName |-> name, ToolInput |-> in, Input |-> <<>>]

\* handlePermissionHook: Input: toolInputSummary(hookData)
Summarize ==
  /\ hin.pc = "summary"
  /\ hin' = [hin EXCEPT !.pc = "done", !.Input = toolInputSummary(hin)]
  /\ UNCHANGED <<bridgeVars, tin, tout, config, hookVars, pupd, lsn, pane, flag, turn, otpVars>>

SummaryNext == Summarize

SummarySpec == SummaryInit /\ [][SummaryNext]_vars

----------------------------------------------------------------------------
(* RegistrySpec: hook processes and the listener on the session registry    *)

\* a path is the sequence of its components: cwd == info.Path ||
\* strings.HasPrefix(cwd, info.Path+"/")
IsPrefix(p, q) == Len(p) <= Len(q) /\ SubSeq(q, 1, Len(p)) = p

\* strings.HasSuffix(cwd, "/"+name)
HasBasename(cwd, name) == Len(cwd) >= 1 /\ cwd[Len(cwd)] = name

\* for name, info := range config.Sessions: a map is ranged over in an
\* unspecified order, given to the two searches as a sequence of the names
RECURSIVE findSessionByClaudeID(_, _, _)
findSessionByClaudeID(cfg, claudeSessionID, order) ==
  IF claudeSessionID = "" \/ order = <<>> THEN ""
  ELSE IF cfg[Head(order)].ClaudeSessionID = claudeSessionID THEN Head(order)
  ELSE findSessionByClaudeID(cfg, claudeSessionID, Tail(order))

RECURSIVE findSessionByCwd(_, _, _)
findSessionByCwd(cfg, cwd, order) ==
  IF order = <<>> THEN ""
  ELSE IF IsPrefix(cfg[Head(order)].Path, cwd) \/ HasBasename(cwd, Head(order))
       THEN Head(order)
  ELSE findSessionByCwd(cfg, cwd, Tail(order))

findSession(cfg, cwd, claudeSessionID, o1, o2) ==
  IF findSessionByClaudeID(cfg, claudeSessionID, o1) # ""
  THEN findSessionByClaudeID(cfg, claudeSessionID, o1)
  ELSE findSessionByCwd(cfg, cwd, o2)

\* the registries a run starts from: session "b" lives in its own directory
\* or in a project directory, the assistant's session id of "a" is known or not
Registries ==
  {[Registry EXCEPT !["b"].Path = p, !["a"].ClaudeSessionID = s] :
     p \in {<<"home", "u", "b">>, <<"home", "w">>}, s \in {"", "s1"}}

\* hookData.Cwd and hookData.SessionID
Cwds == {<<"home", "u", "a">>, <<"home", "u", "a", "sub">>, <<"home", "w", "a">>,
         <<"tmp", "c">>, <<"tmp", "x">>}
SessionIDs == {"", "s1"}

RegistryInit ==
  /\ BridgeIdle
  /\ HooksIdle
  /\ PollIdle
  /\ OtpIdle
  /\ tin = NoTranscript
  /\ tout = NotRun
  /\ hin = NoHook
  /\ config \in Registries

regOthers == <<bridgeVars, tin, tout, hookVars, pupd, lsn, pane, flag, turn, otpVars>>

\* readHookStdin, json.Unmarshal, loadConfig
HookLoad ==
  /\ hin.pc = "none"
  /\ \E cwd \in Cwds, id \in SessionIDs :
       hin' = [pc |-> "loaded", Cwd |-> cwd, SessionID |-> id, config |-> config,
               sessName |-> ""]
  /\ UNCHANGED <<config, regOthers>>

\* sessName, topicID := findSession(config, hookData.Cwd, hookData.SessionID)
HookFind ==
  /\ hin.pc = "loaded"
  /\ \E o1, o2 \in Orders(DOMAIN hin.config) :
       LET n == findSession(hin.config, hin.Cwd, hin.SessionID, o1, o2) IN
       hin' = [hin EXCEPT !.pc = IF n = "" \/ hin.config[n].TopicID = 0 THEN "exit" ELSE "found",
                          !.sessName = n]
  /\ UNCHANGED <<config, regOthers>>

\* persistClaudeSessionID(config, sessName, hookData.SessionID)
persistClaudeSessionID ==
  /\ hin.pc = "found"
  /\ hin' = [hin EXCEPT !.pc = "exit"]
  /\ config' = IF hin.SessionID # "" /\ hin.config[hin.sessName].ClaudeSessionID # hin.SessionID
               THEN saveConfig([hin.config EXCEPT ![hin.sessName].ClaudeSessionID = hin.SessionID])
               ELSE config
  /\ UNCHANGED regOthers

\* the hook process ends
HookExit ==
  /\ hin.pc = "exit"
  /\ hin' = NoHook
  /\ UNCHANGED <<config, regOthers>>

\* /delete in the thread of a session: loadConfig, delete(config.Sessions,
\* sessName), saveConfig
ListenDelete ==
  /\ pupd <= MaxUpdates
  /\ \E thread \in Threads :
       LET sessName == getSessionByTopic(config, thread) IN
       /\ sessName # ""
       /\ config' = saveConfig([x \in DOMAIN config \ {sessName} |-> config[x]])
       /\ lsn' = [lsn EXCEPT !.from = ChatID, !.heard = [thread |-> thread, text |-> <<"/delete">>]]
  /\ pupd' = pupd + 1
  /\ UNCHANGED <<hin, bridgeVars, tin, tout, hookVars, pane, flag, turn, otpVars>>

\* text in the thread of a session whose window is gone: loadConfig,
\* createTmuxWindow, config.Sessions[sessName].WindowID = newWindowID,
\* saveConfig, then the text is recorded and typed
ListenAutoStart ==
  /\ \E thread \in Threads, w \in WindowIDs : ThreadText(thread, <<"look at this">>, w)

RegistryNext ==
  \/ HookLoad
  \/ HookFind
  \/ persistClaudeSessionID
  \/ HookExit
  \/ ListenDelete
  \/ ListenAutoStart

RegistrySpec == RegistryInit /\ [][RegistryNext]_vars

----------------------------------------------------------------------------
(* CallbackSpec: the questions of the assistant answered by buttons         *)

\* lengths of the names of sessions, the base name of a directory
NameLens == {1, 2, callbackCap - 6, callbackCap - 5, callbackCap - 4, callbackCap - 3}
MaxQuestions == 2
MaxOptions == 3

CallbackInit ==
  /\ BridgeIdle
  /\ HooksIdle
  /\ PollIdle
  /\ OtpIdle
  /\ tin = NoTranscript
  /\ tout = NotRun
  /\ config = Registry
  /\ \E n \in NameLens, t \in 1..MaxQuestions, o \in 1..MaxOptions :
       hin = [pc |-> "ask", sessName |-> [i \in 1..n |-> "s"], Questions |-> t,
              Options |-> o, buttons |-> {}, tapped |-> {}]

\* handlePermissionHook, AskUserQuestion: one message per question with one
\* button per option
AskUserQuestion ==
  /\ hin.pc = "ask"
  /\ hin' = [hin EXCEPT !.pc = "asked",
               !.buttons = {[q |-> q, i |-> i,
                             CallbackData |-> callbackData(hin.sessName, q, hin.Questions, i)] :
                            q \in 0..(hin.Questions - 1), i \in 0..(hin.Options - 1)}]
  /\ chat' = chat \o [q \in 1..hin.Questions |-> [op |-> "keyboard", id |-> 0]]
  /\ UNCHANGED <<bridgeVars, tin, tout, config, hpc, hblocks, hcycle, hloc, toolstate,
                 toolLock, pupd, lsn, pane, flag, turn, otpVars>>

\* the principal taps a button; the window of the session exists or not
TapButton ==
  /\ hin.pc \in {"asked", "tapped"}
  /\ \E b \in hin.buttons : \E exists \in BOOLEAN :
       /\ PollCallbackData(b.CallbackData, exists)
       /\ hin' = [hin EXCEPT !.pc = "tapped", !.tapped = {[q |-> b.q, i |-> b.i, exists |-> exists]}]

CallbackNext ==
  \/ AskUserQuestion
  \/ TapButton
  \/ DialogTakesKeys

CallbackSpec == CallbackInit /\ [][CallbackNext]_vars

----------------------------------------------------------------------------
(* ThreadSpec: the principal writes in the threads of two sessions while    *)
(* the pre-tool hook of one of them asks for permission                     *)

ThreadNext ==
  \/ \E thread \in Threads, text \in FreeTexts \cup {ValidCode}, w \in WindowIDs \cup {""} :
       ThreadText(thread, text, w)
  \/ ListenCreate
  \/ ListenWrite
  \/ RequestAges
  \/ FlagAges
  \/ PromptSubmitted
  \/ PreToolStart("h1")
  \/ TextsEnd("h1")
  \/ ToolLock("h1")
  \/ ToolShow("h1")
  \/ ToolSave("h1")
  \/ ToolRecord("h1")
  \/ OTPCheck("h1")
  \/ OTPRequest("h1")
  \/ OTPAnswer("h1")
  \/ OTPLastPoll("h1")
  \/ OTPTimeout("h1")

ThreadSpec == OtpInit /\ [][ThreadNext]_vars

----------------------------------------------------------------------------
(* AuthFlowSpec: /auth and the code that answers it                         *)

\* text == "/auth": go handleAuth(config, chatID, threadID)
PollAuth ==
  /\ ~lsn.auth.crashed
  /\ pupd <= MaxUpdates
  /\ pupd' = pupd + 1
  /\ lsn' = [lsn EXCEPT !.from = ChatID, !.heard = [thread |-> 0, text |-> <<"/auth">>],
                        !.auth.g[pupd] = "auth"]
  /\ UNCHANGED <<bridgeVars, tailVars, hookVars, pane, flag, turn, otpVars>>

\* a text that is no command
PollAuthText ==
  /\ ~lsn.auth.crashed
  /\ \E thread \in Threads, text \in {<<"look at this">>, ValidCode} : ThreadText(thread, text, "")

\* authInProgress.Unlock(): fatal error "sync: unlock of unlocked mutex" when
\* the mutex is not locked
Unlock(a) ==
  IF a.authInProgress
  THEN [a EXCEPT !.authInProgress = FALSE, !.unlocks = @ + 1]
  ELSE [a EXCEPT !.crashed = TRUE]

\* handleAuth: if !authInProgress.TryLock() { sendMessage; return }
AuthTryLock(u) ==
  /\ ~lsn.auth.crashed
  /\ lsn.auth.g[u] = "auth"
  /\ lsn' = IF lsn.auth.authInProgress
            THEN [lsn EXCEPT !.auth.g[u] = "none"]
            ELSE [lsn EXCEPT !.auth.g[u] = "scan", !.auth.authInProgress = TRUE,
                             !.auth.locks = @ + 1]
  /\ chat' = Append(chat, [op |-> "notice", id |-> 0])
  /\ UNCHANGED <<bridgeVars, tailVars, hpc, hblocks, hcycle, hloc, toolstate, toolLock,
                 pupd, pane, flag, turn, otpVars>>

\* handleAuth: the tmux session is not created, the assistant is already
\* authenticated, no URL is found, or the URL is found and sent
AuthScan(u) ==
  /\ ~lsn.auth.crashed
  /\ lsn.auth.g[u] = "scan"
  /\ \E found \in BOOLEAN :
       lsn' = IF found
              THEN [lsn EXCEPT !.auth.g[u] = "none", !.auth.authWaitingCode = TRUE]
              ELSE [lsn EXCEPT !.auth = Unlock([@ EXCEPT !.g[u] = "none"])]
  /\ chat' = Append(chat, [op |-> "notice", id |-> 0])
  /\ UNCHANGED <<bridgeVars, tailVars, hpc, hblocks, hcycle, hloc, toolstate, toolLock,
                 pupd, pane, flag, turn, otpVars>>

\* handleAuthCode: authWaitingCode = false, the code is typed
AuthCodeStart(u) ==
  /\ ~lsn.auth.crashed
  /\ lsn.auth.g[u] = "code"
  /\ lsn' = [lsn EXCEPT !.auth.g[u] = "confirm", !.auth.authWaitingCode = FALSE]
  /\ chat' = Append(chat, [op |-> "notice", id |-> 0])
  /\ UNCHANGED <<bridgeVars, tailVars, hpc, hblocks, hcycle, hloc, toolstate, toolLock,
                 pupd, pane, flag, turn, otpVars>>

\* handleAuthCode: the prompt of the assistant is seen or the ten polls are
\* over; killTmuxSession, authInProgress.Unlock()
AuthCodeEnd(u) ==
  /\ ~lsn.auth.crashed
  /\ lsn.auth.g[u] = "confirm"
  /\ lsn' = [lsn EXCEPT !.auth = Unlock([@ EXCEPT !.g[u] = "none"])]
  /\ chat' = Append(chat, [op |-> "notice", id |-> 0])
  /\ UNCHANGED <<bridgeVars, tailVars, hpc, hblocks, hcycle, hloc, toolstate, toolLock,
                 pupd, pane, flag, turn, otpVars>>

AuthFlowInit == BridgeIdle /\ OthersIdle

AuthFlowNext ==
  \/ PollAuth
  \/ PollAuthText
  \/ \E u \in 1..MaxUpdates : AuthTryLock(u)
  \/ \E u \in 1..MaxUpdates : AuthScan(u)
  \/ \E u \in 1..MaxUpdates : AuthCodeStart(u)
  \/ \E u \in 1..MaxUpdates : AuthCodeEnd(u)

AuthFlowSpec == AuthFlowInit /\ [][AuthFlowNext]_vars

----------------------------------------------------------------------------
(* TurnSpec: a prompt from chat starts a new turn while the pre-tool hook   *)
(* of the turn before may still run                                        *)

TurnInit ==
  /\ BridgeIdle
  /\ TailIdle
  /\ HooksIdle
  /\ pupd = 1
  /\ lsn = NoListener
  /\ pane = NoPrompt
  /\ flag = "none"
  /\ turn = [via |-> "terminal", old |-> FALSE, started |-> TRUE]
  /\ OtpIdle

\* a tool call of the turn that the prompt at the terminal started
OldTurnTool == turn.via = "terminal" /\ PreToolStart("h1")

\* the first tool call of the turn that the prompt from chat started
NewTurnTool == turn.via = "chat" /\ PreToolStart("h2")

TurnNext ==
  \/ OldTurnTool
  \/ NewTurnTool
  \/ PollText
  \/ PromptSubmitted
  \/ \E p \in PreToolHooks : TextsEnd(p)
  \/ \E p \in PreToolHooks : ToolLock(p)
  \/ \E p \in PreToolHooks : ToolShow(p)
  \/ \E p \in PreToolHooks : ToolSave(p)
  \/ \E p \in PreToolHooks : ToolRecord(p)
  \/ \E p \in PreToolHooks : OTPCheck(p)

TurnSpec == TurnInit /\ [][TurnNext]_vars

----------------------------------------------------------------------------
(* LiveSpec: two pre-tool hooks of one turn flush the text written before   *)
(* their tools and show their tools in the live message                    *)

\* no tool of the turn has been shown yet, or Grep has been, in message 1
GrepShown == [MsgID |-> 1, Tools |-> <<"Grep">>]

LiveInit ==
  /\ BridgeIdle
  /\ tin \in ToolTranscripts
  /\ tout = NotRun
  /\ hin = NoHook
  /\ config = Registry
  /\ hpc = [p \in HookProcs |-> IF p = "retry" THEN "sleep" ELSE "unborn"]
  /\ hblocks = [p \in HookProcs |-> <<>>]
  /\ hcycle = 0
  /\ hloc = [p \in HookProcs |-> NoToolState]
  /\ toolstate \in {NoToolState, GrepShown}
  /\ toolLock = NoProc
  /\ chat = IF toolstate = NoToolState THEN <<>>
            ELSE <<[op |-> "send", id |-> 1, text |-> formatToolMessage(GrepShown)]>>
  /\ pupd = 1
  /\ lsn = NoListener
  /\ pane = NoPrompt
  /\ flag = "none"
  /\ turn = [via |-> "terminal", old |-> FALSE, started |-> TRUE]
  /\ OtpIdle

LiveNext ==
  \/ \E p \in PreToolHooks : PreToolStart(p)
  \/ \E p \in PreToolHooks : TextCheck(p)
  \/ \E p \in PreToolHooks : TextLock(p)
  \/ \E p \in PreToolHooks : TextDeliver(p)
  \/ \E p \in PreToolHooks : TextsEnd(p)
  \/ \E p \in PreToolHooks : ToolLock(p)
  \/ \E p \in PreToolHooks : ToolShow(p)
  \/ \E p \in PreToolHooks : ToolSave(p)
  \/ \E p \in PreToolHooks : ToolRecord(p)
  \/ \E p \in PreToolHooks : OTPCheck(p)

LiveSpec == LiveInit /\ [][LiveNext]_vars

----------------------------------------------------------------------------
(* OnceSpec: the stop-retry child of the turn before queues the text of the *)
(* new turn, the delivery loop uploads what is queued, and the pre-tool     *)
(* hook of the new turn flushes the texts not yet delivered                 *)

ToolTextIds == {BlockID(b) : b \in UNION {BlocksOf(in) : in \in ToolTranscripts}}

OnceInit ==
  /\ clock = 2
  /\ tin \in ToolTranscripts
  /\ db = <<>>
  /\ hts = [p \in Producers |-> 0]
  /\ lpc = "wait"
  /\ lsessions = <<>>
  /\ lsess = NoSession
  /\ lpending = <<>>
  /\ lres = NoRes
  /\ uploads = [s \in Sessions |-> <<>>]
  /\ tries = [i \in ToolTextIds |-> <<>>]
  /\ notes = [i \in ToolTextIds |-> <<>>]
  /\ faults \in 0..MaxFails
  /\ cfailed = {}
  /\ cskipped = {}
  /\ last = NoStmt
  /\ tout = NotRun
  /\ hin = NoHook
  /\ config = Registry
  /\ hpc = [p \in HookProcs |-> IF p = "retry" THEN "sleep" ELSE "unborn"]
  /\ hblocks = [p \in HookProcs |-> <<>>]
  /\ hcycle = retryCycles - 1
  /\ hloc = [p \in HookProcs |-> NoToolState]
  /\ toolstate = NoToolState
  /\ toolLock = NoProc
  /\ chat = <<>>
  /\ pupd = 1
  /\ lsn = NoListener
  /\ pane = NoPrompt
  /\ flag = "none"
  /\ turn = [via |-> "terminal", old |-> FALSE, started |-> TRUE]
  /\ OtpIdle

OnceNext ==
  \/ DeliveryLoop
  \/ RetryStep
  \/ PreToolStart("h1")
  \/ TextCheck("h1")
  \/ TextLock("h1")
  \/ TextDeliver("h1")
  \/ TextsEnd("h1")
  \/ ToolLock("h1")
  \/ ToolShow("h1")
  \/ ToolSave("h1")
  \/ ToolRecord("h1")
  \/ OTPCheck("h1")

OnceSpec == OnceInit /\ [][OnceNext]_vars

----------------------------------------------------------------------------
(* Properties *)

\* a delivered row stays in the table and stays delivered
C1_Step ==
  \A i \in DOMAIN db :
    db[i].tg_delivered = 1 => (i \in DOMAIN db' /\ db'[i].tg_delivered = 1)

\* C1: no statement on table messages takes the delivered flag of a row from
\* 1 back to 0, in any order of appendMessage, markDelivered and incRetry.
C1_DeliveredMonotone == [][C1_Step]_vars

\* an append with delivered = false ran on a delivered row
C1_Witness ==
  /\ last.op = "appendMessage"
  /\ ~last.TgDelivered
  /\ db[last.id].tg_delivered = 1

\* the step is an appendMessage on a stored id
ConflictStep == last'.op = "appendMessage" /\ last'.id \in DOMAIN db

C2_Step ==
  ConflictStep =>
    /\ db'[last'.id].tg_msg_id =
         IF last'.TgMsgID > 0 THEN last'.TgMsgID ELSE db[last'.id].tg_msg_id
    /\ \A i \in DOMAIN db : db[i].tg_msg_id # 0 => db'[i].tg_msg_id # 0

\* C2: an appendMessage on a stored id keeps the stored chat message id when
\* it carries 0 and replaces it when it carries an id > 0; no appendMessage
\* takes a stored id from non-zero to zero.
C2_ExternalIdKept == [][C2_Step]_vars

\* an append carrying 0 ran on a row that has a chat message id
C2_Witness ==
  /\ last.op = "appendMessage"
  /\ last.TgMsgID = 0
  /\ db[last.id].tg_msg_id # 0

\* C10: findPending(s) returns exactly the rows of session s with
\* delivered = 0 and retry_count < 5, each once, in non-decreasing
\* creation-timestamp order.
C10_FindPending ==
  last.op = "findPending" =>
    LET r == last.result
    IN /\ {r[k].ID : k \in 1..Len(r)} =
            {i \in DOMAIN db : /\ db[i].session = last.session
                               /\ db[i].tg_delivered = 0
                               /\ db[i].retry_count < 5}
       /\ \A k, l \in 1..Len(r) : k < l => r[k].ID # r[l].ID
       /\ \A k, l \in 1..Len(r) : k < l => r[k].Timestamp <= r[l].Timestamp
       /\ \A k \in 1..Len(r) : /\ r[k].Timestamp = db[r[k].ID].created_at
                                /\ r[k].RetryCount = db[r[k].ID].retry_count

\* two rows came back, in timestamp order, the later id first in the table
C10_Witness ==
  /\ last.op = "findPending"
  /\ Len(last.result) = 2
  /\ last.result[1].Timestamp < last.result[2].Timestamp
  /\ last.result[1].ID > last.result[2].ID

Last(q) == q[Len(q)]
Configured(s) == TopicID[s] # 0 /\ GroupID # 0
RowsOf(s) == {i \in DOMAIN db : db[i].session = s}
Failures(i) == Len(SelectSeq(tries[i], LAMBDA o : o # "ok"))
DropKinds == {"dropped_permanent", "dropped_retries"}
DropNotes(i) == SelectSeq(notes[i], LAMBDA n : n.kind \in DropKinds)
Dropped(i) == DropNotes(i) # <<>>
\* the upload of row i is in flight: sent, its result not yet handled
InFlight(i) == lpc = "sent" /\ Head(lpending).ID = i
\* failures of row i that the loop has handled
Handled(i) == IF InFlight(i) /\ ~lres.ok THEN Failures(i) - 1 ELSE Failures(i)

\* C3: per session, the rows the delivery loop uploads are in non-decreasing
\* creation-timestamp order, over all cycles and whatever the producers do.
C3_UploadOrder ==
  \A s \in Sessions :
    \A k \in 1..(Len(uploads[s]) - 1) :
      db[uploads[s][k]].created_at <= db[uploads[s][k + 1]].created_at

\* row k failed with a transient error and is still below maxRetries
Retryable(k) ==
  /\ tries[k] # <<>>
  /\ Last(tries[k]) = "transient"
  /\ db[k].retry_count < maxRetries

\* after such a failure no row of the session is uploaded in the same cycle
C4_SameCycle ==
  \A k \in cfailed : Retryable(k) => ~(lpc = "sent" /\ lsess = db[k].session)

\* a row is never attempted while an earlier row of its session is still
\* pending after a transient failure
C4_LaterCycles ==
  lpc = "sent" =>
    \A k \in RowsOf(lsess) :
      ~ /\ k # Head(lpending).ID
        /\ db[k].created_at < Head(lpending).Timestamp
        /\ Retryable(k)
        /\ db[k].tg_delivered = 0

\* the loop handles a failed upload
FailStep == lpc = "sent" /\ ~lres.ok /\ lpc' # "sent"

\* the sessions still to visit in the cycle are kept
C4_OtherSessions == FailStep => lsessions' = lsessions

\* C4: when the upload of row k fails with a transient error below maxRetries,
\* no later row of the session is uploaded in that cycle, in later cycles k is
\* attempted before any later row until it is delivered or dropped, and the
\* other sessions of the cycle are still visited.
C4_FailureBlocksSession ==
  [](C4_SameCycle /\ C4_LaterCycles) /\ [][C4_OtherSessions]_vars

\* a row of session b is uploaded in the cycle in which a row of session a
\* failed and a later row of a was left out
C4_Witness ==
  /\ lpc = "sent"
  /\ lsess = "b"
  /\ \E k \in cfailed, j \in cskipped :
       /\ db[k].session = "a" /\ db[j].session = "a"
       /\ Retryable(k)
       /\ db[k].created_at < db[j].created_at

\* C7, as stated: after a drop the loop goes on with the next row of the
\* session's snapshot, so no row of that snapshot is left out in the cycle.
C7_ContinuesAfterDrop ==
  \A k \in cfailed :
    Dropped(k) => \A j \in cskipped : db[j].session # db[k].session

\* C7: after a drop no further row of that session is uploaded in
\* the same cycle; the rows left in the snapshot wait for a following cycle.
C7_StopsAfterDrop ==
  /\ \A k \in cfailed : Dropped(k) => ~(lpc = "sent" /\ lsess = db[k].session)
  /\ \A j \in cskipped : ~InFlight(j)

\* a row was dropped after maxRetries failures and a later row was left out
C7_Witness ==
  \E k \in cfailed, j \in cskipped :
    /\ Dropped(k)
    /\ Last(notes[k]).kind = "dropped_retries"
    /\ db[j].session = db[k].session

\* C5, first half: under a fair delivery loop every row of a session with a chat
\* thread and a group is eventually delivered, however the chat API fails.
C5_Live ==
  \A i \in Ids :
    (i \in DOMAIN db /\ Configured(db[i].session)) ~> (db[i].tg_delivered = 1)

\* the three rows of session s were all uploaded, and the only failure was one
\* transient failure of the earliest row
OneTransientFailure(s) ==
  /\ Configured(s)
  /\ Cardinality(RowsOf(s)) = 3
  /\ \A i \in RowsOf(s) : db[i].tg_delivered = 1
  /\ \E f \in RowsOf(s) :
       /\ \A j \in RowsOf(s) \ {f} : db[f].created_at < db[j].created_at
       /\ tries[f] = <<"transient", "ok">>
       /\ \A j \in RowsOf(s) \ {f} : tries[j] = <<"ok">>

\* C5, second half: then the rows were uploaded in timestamp order, the first
\* row has retry_count 1, the others 0, and no row was dropped.
C5_Scenario ==
  \A s \in Sessions :
    OneTransientFailure(s) =>
      /\ Len(uploads[s]) = 3
      /\ \A k \in 1..2 : db[uploads[s][k]].created_at < db[uploads[s][k + 1]].created_at
      /\ \A i \in RowsOf(s) :
           /\ db[i].retry_count = Failures(i)
           /\ notes[i] = <<>>
           /\ db[i].tg_msg_id # 0

\* C5: every pending row of a configured session is eventually delivered, and
\* three rows with one transient failure of the first are uploaded in order,
\* with retry_count 1 for the first row and no row dropped.
C5_EventuallyDelivered == C5_Live /\ []C5_Scenario

\* three rows delivered after one transient failure of the first
C5_Witness == OneTransientFailure("a")

C6_RetryBound == \A i \in DOMAIN db : db[i].retry_count <= maxRetries

AppendStep == \E p \in Producers : hts[p] # 0 /\ hts'[p] = 0

C6_AppendKeepsRetry ==
  AppendStep =>
    \A i \in DOMAIN db : i \in DOMAIN db' /\ db'[i].retry_count = db[i].retry_count

\* C6: every row has retry_count <= maxRetries, and an appendMessage on a
\* stored id leaves every retry_count as it is.
C6_RetryCount == []C6_RetryBound /\ [][C6_AppendKeepsRetry]_vars

\* a row that failed maxRetries times was appended again with a chat message id
C6_Witness ==
  \E i \in DOMAIN db :
    /\ db[i].retry_count = maxRetries
    /\ Failures(i) = maxRetries
    /\ db[i].tg_msg_id # 0

HandledTries(i) ==
  IF InFlight(i) THEN SubSeq(tries[i], 1, Len(tries[i]) - 1) ELSE tries[i]
Has(q, x) == \E k \in 1..Len(q) : q[k] = x

C8_State ==
  \A i \in Ids :
    /\ Len(DropNotes(i)) <= 1
    /\ Dropped(i) =>
         /\ Last(notes[i]).kind \in DropKinds
         /\ Len(tries[i]) = Last(notes[i]).n
         /\ ~Has(tries[i], "ok")
         /\ db[i].tg_delivered = 1
         /\ db[i].retry_count = Last(notes[i]).n
    /\ Has(HandledTries(i), "permanent") =>
         /\ Dropped(i)
         /\ Last(notes[i]).kind = "dropped_permanent"
         /\ Last(HandledTries(i)) = "permanent"
         /\ ~Has(SubSeq(tries[i], 1, Len(tries[i]) - 1), "permanent")
    /\ ~Has(HandledTries(i), "permanent") =>
         /\ Dropped(i) <=> Handled(i) >= maxRetries
         /\ Dropped(i) => Last(notes[i]) = [kind |-> "dropped_retries", n |-> maxRetries]

\* the loop handles an upload that failed with "chat not found"
PermanentFailStep == lpc = "sent" /\ lres.err = ErrChatNotFound /\ lpc' # "sent"

C8_Step ==
  PermanentFailStep =>
    LET i == Head(lpending).ID
    IN /\ db'[i].tg_delivered = 1
       /\ db'[i].tg_msg_id = 0
       /\ db'[i].retry_count = db[i].retry_count + 1
       /\ notes'[i] = Append(notes[i], [kind |-> "dropped_permanent", n |-> db'[i].retry_count])

\* C8: a row gets at most one drop notice; a permanent error drops the row at
\* that failure (delivered, external id 0, retry_count + 1, one notice); a row
\* that only fails transiently is dropped at its 5th failure with one notice;
\* a dropped row is never attempted again.
C8_DropOnce == []C8_State /\ [][C8_Step]_vars

\* one row was dropped for a permanent error, another after maxRetries failures
C8_Witness ==
  \E i, j \in Ids :
    /\ Dropped(i) /\ Last(notes[i]).kind = "dropped_permanent"
    /\ Dropped(j) /\ Last(notes[j]).kind = "dropped_retries"

ExpectedNote(n) ==
  IF n >= maxRetries THEN [kind |-> "dropped_retries", n |-> n]
  ELSE [kind |-> "send_failed", n |-> n]
ExpectedNotes(f) == [k \in 1..(f - 1) |-> ExpectedNote(k + 1)]

\* C9: the retry count is incremented before it is compared: for a row that
\* only fails transiently the 1st failure sends nothing, the 2nd, 3rd and 4th
\* send 'send failed (n/5)' with n the count after the increment, and the 5th
\* sends the drop notice.
C9_NoticeAtSecondFailure ==
  \A i \in Ids :
    ~Has(tries[i], "permanent") =>
      /\ Handled(i) <= maxRetries
      /\ notes[i] = ExpectedNotes(Handled(i))

\* a row failed maxRetries times with transient errors only
C9_Witness ==
  \E i \in Ids :
    /\ tries[i] = [k \in 1..maxRetries |-> "transient"]
    /\ Len(notes[i]) = maxRetries - 1

\* C11: allSessions() returns exactly the sessions that have a row in the
\* pending set: a session is returned iff findPending of it is non-empty.
C11_AllSessions ==
  \A s \in Sessions : s \in allSessions(db) <=> findPending(db, s) # {<<>>}

\* the columns an appendMessage on a stored id leaves alone
Inserted(row) ==
  [session |-> row.session, type |-> row.type, text |-> row.text,
   origin |-> row.origin, created_at |-> row.created_at,
   retry_count |-> row.retry_count]

C12_Step ==
  ConflictStep =>
    /\ DOMAIN db' = DOMAIN db
    /\ \A i \in DOMAIN db : Inserted(db'[i]) = Inserted(db[i])

\* C12: an appendMessage on a stored id leaves the row's session, kind, text,
\* origin, creation timestamp and retry_count as first inserted; only the
\* delivered flag and the external id may change.
C12_ConflictKeepsRow == [][C12_Step]_vars

\* an append with another text ran on a stored row that had failed uploads
C12_Witness ==
  /\ last.op = "appendMessage"
  /\ last.Text # db[last.id].text
  /\ db[last.id].retry_count > 0
  /\ db[last.id].tg_msg_id = last.TgMsgID
  /\ last.TgMsgID > 0

\* the entries the tailer looks at: the qualifying lines of the tail window
Window == TakeTail(Entries(Scanned(tin.lines)), tin.tailCount)
\* the texts returned for request id r, in the order returned
TextsOf(r) ==
  LET bs == SelectSeq(tout.blocks, LAMBDA b : b.requestID = r)
  IN [k \in 1..Len(bs) |-> bs[k].text]
\* positions of the window's entries that carry request id r
Carrying(r) == {k \in 1..Len(Window) : Window[k].requestID = r}
\* those of them that have a text block that is kept
CarryingText(r) == {k \in Carrying(r) : Texts(Window[k].content) # <<>>}
MaxOf(S) == CHOOSE k \in S : \A j \in S : j <= k
MinOf(S) == CHOOSE k \in S : \A j \in S : k <= j

\* C13, as stated: for every request id of the window the tailer returns the
\* text blocks of the last line carrying it, also when that line has none.
C13_LastLineWins ==
  tout.done =>
    \A r \in RequestIds :
      Carrying(r) # {} => TextsOf(r) = Texts(Window[MaxOf(Carrying(r))].content)

\* C13: for every request id the tailer returns the text blocks of the last
\* line of the window that carries it and has a kept text block; a later line
\* without one does not supersede it; nothing is returned for a request id
\* without such a line.
C13_LastTextLineWins ==
  tout.done =>
    \A r \in RequestIds :
      TextsOf(r) = IF CarryingText(r) # {}
                   THEN Texts(Window[MaxOf(CarryingText(r))].content)
                   ELSE <<>>

\* a request id with a partial line, a complete line and a last line that has
\* no text block: the complete line's texts were returned
C13_Witness ==
  /\ tout.done
  /\ \E r \in RequestIds :
       /\ Cardinality(CarryingText(r)) = 2
       /\ MaxOf(Carrying(r)) \notin CarryingText(r)
       /\ Texts(Window[MinOf(CarryingText(r))].content) # TextsOf(r)
       /\ TextsOf(r) # <<>>

\* block k of the result comes from text block b of line l
FromBlock(k, l, b) ==
  /\ l.json
  /\ l.type = "assistant" /\ l.role = "assistant"
  /\ ~l.isApiErrorMessage
  /\ l.requestId # "" /\ l.requestId = tout.blocks[k].requestID
  /\ l.content.list
  /\ b.type = "text"
  /\ TrimSpace(b.text) = tout.blocks[k].text
  /\ TrimSpace(b.text) # <<>> /\ TrimSpace(b.text) # <<"(no content)">>

\* the text has no white space at either end
Trimmed(t) == t # <<>> /\ t[1] \notin WhiteSpace /\ t[Len(t)] \notin WhiteSpace

\* C14: every returned text comes from a line with type = assistant,
\* message.role = assistant, isApiErrorMessage absent or false and a non-empty
\* requestId, from a block of type text whose trimmed text is not empty and not
\* '(no content)'; malformed lines give nothing; a missing file, an empty path
\* or an empty file gives the empty result.
C14_OnlyAssistantTexts ==
  tout.done =>
    /\ \A k \in 1..Len(tout.blocks) :
         /\ Trimmed(tout.blocks[k].text)
         /\ \E i \in 1..Len(tin.lines) :
              \E j \in 1..Len(tin.lines[i].shape.content.blocks) :
                FromBlock(k, tin.lines[i].shape, tin.lines[i].shape.content.blocks[j])
    /\ (tin.path # "transcript.jsonl" \/ tin.lines = <<>>) => tout.blocks = <<>>

\* a transcript with an API error line, a malformed line and a line whose text
\* came back trimmed
C14_Witness ==
  /\ tout.done
  /\ \E i, j, l \in 1..Len(tin.lines) :
       /\ tin.lines[i].shape.isApiErrorMessage
       /\ ~tin.lines[j].shape.json
       /\ Qualifies(tin.lines[l].shape)
  /\ tout.blocks = <<[requestID |-> "req_2", text |-> <<"first">>],
                     [requestID |-> "req_2", text |-> <<"second">>]>>

\* request ids in the order in which the result first names them
RECURSIVE RidOrder(_)
RidOrder(blocks) ==
  IF blocks = <<>> THEN <<>>
  ELSE LET before == RidOrder(SubSeq(blocks, 1, Len(blocks) - 1))
           r == blocks[Len(blocks)].requestID
       IN IF \E k \in 1..Len(before) : before[k] = r THEN before ELSE Append(before, r)

Positions(r) == {k \in 1..Len(tout.blocks) : tout.blocks[k].requestID = r}
Returned == {tout.blocks[k].requestID : k \in 1..Len(tout.blocks)}

\* the texts of every request id that has texts are returned, contiguous and
\* in the block order of one line
C15_Contiguous ==
  \A r \in RequestIds :
    /\ r \in Returned <=> CarryingText(r) # {}
    /\ r \in Returned =>
         /\ Positions(r) = MinOf(Positions(r))..MaxOf(Positions(r))
         /\ \E k \in Carrying(r) : TextsOf(r) = Texts(Window[k].content)

\* C15, as stated: all request ids are returned, each one's texts contiguous
\* and in block order, the request ids in the order in which they occur in
\* the file.
C15_FileOrder ==
  tout.done =>
    /\ C15_Contiguous
    /\ \A r, s \in Returned :
         MinOf(Positions(r)) < MinOf(Positions(s)) =>
           MinOf(Carrying(r)) < MinOf(Carrying(s))

\* C15: all request ids are returned, each one's texts contiguous and in block
\* order, the request ids in the order of their first line in the window that
\* has a kept text block.
C15_FirstTextOrder ==
  tout.done =>
    /\ C15_Contiguous
    /\ \A r, s \in Returned :
         MinOf(Positions(r)) < MinOf(Positions(s)) =>
           MinOf(CarryingText(r)) < MinOf(CarryingText(s))

\* two request ids came back, the first one's texts taken from a line after
\* the other's
C15_Witness ==
  /\ tout.done
  /\ RidOrder(tout.blocks) = <<"req_1", "req_2">>
  /\ MaxOf(CarryingText("req_1")) > MaxOf(CarryingText("req_2"))
  /\ Len(tout.blocks) = 3

\* the scanned lines when only a line the seek landed inside is dropped
ScannedMidLineOnly(lines) ==
  SelectSeq([i \in 1..Len(lines) |-> [line |-> lines[i], start |-> Start(lines, i)]],
            LAMBDA x : x.start >= Offset(lines))

\* C16: the tailer looks at the last tailCount qualifying lines, before
\* supersession; of a file larger than 512 KiB it scans the last 512 KiB and
\* drops a first line only if the seek landed in the middle of it, so a line
\* that starts exactly at the window boundary is scanned.
C16_TailWindow ==
  (tout.done /\ tin.path = "transcript.jsonl") =>
    LET scanned == [k \in 1..Len(ScannedMidLineOnly(tin.lines)) |->
                      ScannedMidLineOnly(tin.lines)[k].line]
        q == SelectSeq(scanned, LAMBDA l : Qualifies(l.shape))
        n == IF Len(q) > tin.tailCount THEN tin.tailCount ELSE Len(q)
        lastN == SubSeq(q, Len(q) - n + 1, Len(q))
    IN tout.blocks =
         Flatten(Ordered([k \in 1..n |-> [requestID |-> lastN[k].shape.requestId,
                                            content |-> lastN[k].shape.content]]))

\* the (requestId, text hash) pairs of the transcript, as row ids
PairIds == {BlockID(b) : b \in BlocksOf(tin)}

ReplyRows == {id \in DOMAIN db : db[id].type = "assistant_text"}

\* a run of deliverUnsentTexts over the whole transcript has returned
FlushedOnce == hpc["stop"] = "done" \/ hcycle > 0

\* the rows of the log are keyed by id: one row per pair, and none besides
OneRowPerPair ==
  /\ ReplyRows \subseteq PairIds
  /\ FlushedOnce => PairIds \subseteq ReplyRows
  /\ \A id \in ReplyRows : db[id].session = HookSession /\ db[id].origin = "claude"

\* a step of a flush leaves every row that exists as it is
KeepsRows == \A id \in DOMAIN db : id \in DOMAIN db' /\ db'[id] = db[id]

FlushStep == \E p \in Flushers : FlushCheck(p) \/ FlushClear(p) \/ FlushAppend(p)

\* C17: however often the stop hook and its stop-retry cycles flush the same
\* transcript, the log holds exactly one row per (requestId, text hash) pair,
\* with id reply:{requestId}:{hash}, and no flush changes a row that exists
\* (no downgrade of tg_delivered, no reset of retry_count).
C17_FlushIdempotent ==
  /\ []OneRowPerPair
  /\ [][FlushStep => KeepsRows]_vars

\* the stop-retry child has run its three cycles, and the last append of a
\* flush hit a row that was already delivered
C17_Witness ==
  /\ hcycle = retryCycles
  /\ last.op = "appendMessage"
  /\ last.result # <<>>
  /\ last.result[1].tg_delivered = 1
  /\ PairIds = ReplyRows

\* the user-prompt hook has fired on a prompt the poller typed
FiredOnInjected == last.op \in {"isFromTelegram", "appendMessage"} /\ last.result = <<"chat">>

\* C18: the user-prompt hook that fires with a prompt body the poller
\* injected from chat (free text, voice, photo, document) finds
\* isFromTelegram true and inserts no terminal-origin user_prompt row.
C18_NoEcho ==
  FiredOnInjected =>
    /\ last.op = "isFromTelegram"
    /\ \A id \in DOMAIN db : db[id].origin = "terminal" => db[id].text # last.Text

\* the tool messages the pre-tool hooks of the turn created in the chat thread
ToolMessages == {chat[k].id : k \in {j \in DOMAIN chat : chat[j].op = "send"}}

\* C19: within one turn, whatever the interleaving of the parallel pre-tool
\* hooks, the stop-retry child of the turn before and the poller, at most one
\* live tool message is created in the chat thread.
C19_OneToolMessage == Cardinality(ToolMessages) <= 1

\* OTP is enabled, the input that started the turn came from chat less than
\* otpGrantDuration ago, and no valid grant exists
OTPApplies(d) ==
  /\ otp.enabled
  /\ d.input.via = "chat" /\ d.input.started /\ ~d.input.old
  /\ d.grant # "valid"

\* C20: with OTP enabled, the latest input injected from chat less than 5
\* minutes ago and no valid grant, every pre-tool hook of the turn that this
\* input started writes an allow or deny decision; none returns without one.
C20_AlwaysDecides ==
  \A k \in DOMAIN decisions :
    OTPApplies(decisions[k]) => decisions[k].decision \in {"allow", "deny"}

\* the user-prompt hook has fired on a prompt typed at the terminal
FiredOnTerminal == last.op \in {"isFromTelegram", "appendMessage"} /\ last.result = <<"terminal">>

\* C30: a prompt typed at the terminal gets a terminal-origin user_prompt row
\* with delivered = 0; a chat prompt of an earlier turn that has ended does
\* not make the hook absorb it.
C30_TerminalEchoed ==
  FiredOnTerminal =>
    /\ last.op = "appendMessage"
    /\ last.id \in DOMAIN db
    /\ db[last.id].origin = "terminal" /\ db[last.id].tg_delivered = 0

\* the permission requests sent to the chat
OTPRequests == {k \in DOMAIN chat : chat[k].op = "otp"}

\* C22: pre-tool hooks of one session that run the handshake in parallel
\* cause one permission request: no hook sends a request when it had already
\* checked the request file at the time a sibling sent one, whatever the
\* order of their request-file checks and request-file writes.
C22_OneRequestMessage ==
  \A k, l \in OTPRequests : k < l => chat[l].hook \notin chat[k].with

\* C21: with OTP enabled and the chat-active marker fresh at the check, a
\* pre-tool hook writes allow only if a grant younger than 5 minutes exists
\* or the listener took a valid code for a request of this hook or of a
\* sibling that waited along with it; a response left over from an earlier
\* request, whose hooks had all returned before this hook entered the
\* handshake, approves no later request.
C21_AllowNeedsApproval ==
  \A k \in DOMAIN decisions :
    otp.enabled /\ decisions[k].decision = "allow" =>
      \/ decisions[k].grant = "valid"
      \/ ~(decisions[k].heard \subseteq decisions[k].before)

\* C23: when the listener takes one valid code while pre-tool hooks of the
\* session wait in the handshake, every one of these hooks returns allow: one
\* consumes the response file and writes the grant, the siblings find the
\* grant on a later poll before their own timeout.
C23_SiblingsAllowed ==
  \A k \in DOMAIN decisions :
    decisions[k].promised => decisions[k].decision = "allow"

\* the decisions made by the OTP check itself, before any request is written
AtCheck(d) == d.reason \in {"OTP not configured", "", "OTP grant still valid"}

\* the original statement of C24: a pre-tool hook whose check runs while the
\* grant is younger than 5 minutes returns allow
C24_GrantAlwaysAllows ==
  \A k \in DOMAIN decisions :
    AtCheck(decisions[k]) /\ decisions[k].grant = "valid" =>
      decisions[k].decision = "allow"

\* a hook whose check finds a fresh marker and a valid grant returns at once
\* and sends nothing
GrantCheckStep ==
  \A p \in PreToolHooks :
    OTPCheck(p) /\ otp.enabled /\ flag = "fresh" /\ grant = "valid" =>
      hpc'[p] = "done" /\ chat' = chat

\* the grant file is written in a step in which a hook was approved by a
\* response of the listener
GrantWriteStep ==
  grant' # grant /\ grant' = "valid" =>
    \E p \in PreToolHooks : OTPAnswer(p) /\ otp.response = "approved"

\* with OTP enabled, a check that finds a fresh marker and a valid grant
\* allows; every allow has found a valid grant or an approving response
GrantDecisions ==
  \A k \in DOMAIN decisions :
    LET d == decisions[k] IN
    otp.enabled =>
      /\ AtCheck(d) /\ d.flag = "fresh" /\ d.grant = "valid" => d.decision = "allow"
      /\ AtCheck(d) /\ d.flag # "fresh" => d.decision = "none"
      /\ d.decision = "allow" => d.grant = "valid" \/ d.heard # {}

\* C24: with OTP enabled and the chat-active marker fresh, a pre-tool hook
\* whose check runs while the grant is younger than 5 minutes returns allow
\* at once and sends no permission request (without a fresh marker it
\* returns without a decision); a grant of 5 minutes or more allows nothing,
\* every allow then needs an approving response; the grant is only written
\* after an approval.
C24_GrantAllowsWithMarker ==
  []GrantDecisions /\ [][GrantCheckStep /\ GrantWriteStep]_vars

\* a hook whose check found a fresh marker was allowed at once by the grant
\* its sibling wrote
C24_Witness ==
  /\ otp.enabled
  /\ \E k \in DOMAIN decisions :
       decisions[k].reason = "OTP grant still valid" /\ decisions[k].flag = "fresh"

\* the decision a hook wrote in this step
Decided(p, d) ==
  /\ Len(decisions') = Len(decisions) + 1
  /\ decisions'[Len(decisions')].hook = p
  /\ decisions'[Len(decisions')].decision = d

\* a hook that reaches its deadline denies, removes the request file and
\* writes no grant
TimeoutStep ==
  \A p \in PreToolHooks :
    OTPTimeout(p) => Decided(p, "deny") /\ otp'.request = "none" /\ grant' = grant

\* a hook that reads a response which does not unmarshal denies and writes
\* no grant
UnreadableStep ==
  \A p \in PreToolHooks :
    OTPAnswer(p) /\ ~hasValidOTPGrant /\ otp.response = "partial" =>
      Decided(p, "deny") /\ grant' = grant

\* C25: every pre-tool hook that enters the wait of the handshake returns;
\* at the timeout, with neither a response nor a valid grant, it denies,
\* removes the request file and writes no grant; an unreadable response is
\* answered with deny too.
C25_WaitTerminates ==
  /\ \A p \in PreToolHooks : (hpc[p] \in {"wait", "late"}) ~> (hpc[p] = "done")
  /\ [][TimeoutStep /\ UnreadableStep]_vars

\* one hook has returned deny at its deadline, the other after reading a
\* response that was being written
C25_Witness ==
  /\ \A p \in PreToolHooks : hpc[p] = "done"
  /\ \E k, l \in DOMAIN decisions :
       /\ decisions[k].reason = "OTP approval timed out" /\ decisions[k].heard = {}
       /\ decisions[l].reason = "OTP approval timed out" /\ decisions[l].heard # {}

\* the step advances the poll offset and nothing else
OnlyOffset ==
  /\ pupd' = pupd + 1
  /\ \E from \in Senders : lsn' = [lsn EXCEPT !.from = from]
  /\ UNCHANGED <<bridgeVars, tailVars, hookVars, pane, flag, turn, otpVars>>

\* C27: an update, message or button callback, whose sender is not the
\* configured principal only advances the poll offset: no message row, no
\* tool state cleared, no OTP response, no chat-active marker, no command
\* run, nothing typed into a window.
C27_ForeignIgnored ==
  [][\A from \in Senders \ {ChatID} : Update(from) => OnlyOffset]_vars

\* the update taken last came from a sender other than the principal, while
\* an OTP request waits for a code and a message of the principal is stored
C27_Witness ==
  /\ lsn.from \in Senders \ {ChatID}
  /\ \E id \in DOMAIN db : db[id].origin = "telegram"
  /\ otp.enabled /\ otp.request # "none"

\* at most one process holds the lock, and the tasks run in the holder
SingleHolder == Cardinality(lsn.holders) <= 1 /\ Serving \subseteq lsn.holders

\* a process that finds the lock held exits with status 0 and changes nothing
\* else; having exited it takes no further step
SecondExits ==
  \A l \in Listeners :
    /\ ListenFlock(l) /\ lsn.holders # {} =>
          /\ lsn'.pc[l] = "exit0"
          /\ lsn' = [lsn EXCEPT !.pc[l] = "exit0"]
          /\ UNCHANGED notListen
    /\ lsn.pc[l] = "exit0" => lsn'.pc[l] = "exit0"

\* C26: at any time at most one process holds the exclusive lock on ccc.lock
\* and runs the delivery loop and the poller; a listen process started while
\* the lock is held exits with status 0, starts neither task and leaves the
\* pid in the lock file as it is.
C26_SingleListener == []SingleHolder /\ [][SecondExits]_vars

\* one process holds the lock, has its pid in ccc.lock and runs the tasks;
\* the other found the lock held and has exited with status 0
C26_Witness ==
  \E l, k \in Listeners :
    /\ lsn.holders = {l} /\ lsn.pid = l /\ lsn.pc[l] = "loop"
    /\ lsn.pc[k] = "exit0"

\* the channels hold at most their capacity and the bridge can always take
\* a signal from sigCh
BridgeFree ==
  /\ lsn.wake <= deliveryNotifyCap
  /\ lsn.sigCh <= sigChCap
  /\ lsn.sigCh > 0 => ENABLED SignalBridge

\* C29: the wake-up channel holds at most one pending wake-up and the signal
\* bridge never blocks; a signal that arrives while a wake-up is pending is
\* dropped, and still after every SIGUSR1 the listener has received a
\* delivery cycle begins, which reads the pending rows committed before the
\* signal.
C29_NoWakeLost == []BridgeFree /\ (lsn.due ~> ~lsn.due)

\* a signal has arrived while a wake-up is pending and a cycle is under way
C29_Witness ==
  /\ lsn.wake = deliveryNotifyCap /\ lsn.sigCh = sigChCap /\ lsn.due
  /\ lpc = "drain" /\ lpending # <<>>

\* C28: every hook invocation that inserts a row with delivered = 0 signals
\* the listener after the insert: a hook that owes the signal has not
\* returned yet. This covers the stop hook and its child, the user-prompt,
\* compact and notification hooks and the pre-tool hook.
C28_HooksSignal == \A p \in lsn.owes : p \in HookProcs /\ hpc[p] # "done"

\* the child has run at most retryCycles cycles, and all of them when it ends
ThreeCycles ==
  /\ hcycle <= retryCycles
  /\ hpc["retry"] = "done" => hcycle = retryCycles

\* a cycle of the child ends with a signal iff it appended a row
SignalIffAppended ==
  RetryCycleEnd => (lsn'.kicks = lsn.kicks + 1 <=> "retry" \in lsn.owes)
                   /\ (lsn'.kicks # lsn.kicks + 1 => lsn'.kicks = lsn.kicks)

C38_SummaryBounded == hin.pc = "done" => Len(hin.Input) <= truncAt

\* C34: a hook is mapped to a session by strict priority: the session whose
\* assistant session id equals the hook's session_id, else a session whose path
\* equals the cwd or is a directory prefix of it, and only if none matches by
\* path a session named like the last component of the cwd.
C34_StrictPriority ==
  hin.pc \in {"found", "exit"} =>
    LET cfg == hin.config
        ById == {n \in DOMAIN cfg : hin.SessionID # "" /\ cfg[n].ClaudeSessionID = hin.SessionID}
        ByPath == {n \in DOMAIN cfg : IsPrefix(cfg[n].Path, hin.Cwd)}
        ByName == {n \in DOMAIN cfg : HasBasename(hin.Cwd, n)}
    IN  IF ById # {} THEN hin.sessName \in ById
        ELSE IF ByPath # {} THEN hin.sessName \in ByPath
        ELSE IF ByName # {} THEN hin.sessName \in ByName
        ELSE hin.sessName = ""

\* C35: a hook process never brings back what the listener changed in the
\* registry after the hook loaded it: a session removed by /delete stays
\* removed and a stored window id stays stored when the hook saves.
C35_HookKeepsRegistry ==
  [][hin.pc = "found" /\ hin'.pc = "exit" =>
       /\ DOMAIN config' \subseteq DOMAIN config
       /\ \A n \in DOMAIN config' : config'[n].WindowID = config[n].WindowID]_vars

\* C37: for the button of option k of question q of t questions the poller
\* sends to the window of the session, if it exists, exactly k Down keys and
\* one Enter, and one more Enter iff q is the last question.
C37_CallbackKeys ==
  hin.pc = "tapped" /\ pane.via = "callback" =>
    \A b \in hin.tapped :
      pane.body = [i \in 1..b.i |-> "Down"] \o <<"Enter">>
                  \o (IF b.q = hin.Questions - 1 THEN <<"Enter">> ELSE <<>>)

\* C36: free text of the principal in the thread of a session is always
\* recorded as a delivered user_prompt row of chat origin, clears the tool
\* state of the session, sets its chat-active marker and is typed into its
\* window, also while a permission request is pending; and a valid code
\* approves only a request of the session in whose thread it was sent.
C36_ThreadTextInjected ==
  [][pupd' = pupd + 1 /\ lsn'.heard.thread \in Threads =>
       LET u == lsn'.heard
           sessName == getSessionByTopic(config, u.thread)
       IN /\ u.text \in FreeTexts =>
               /\ <<"tg", pupd>> \in DOMAIN db'
               /\ db'[<<"tg", pupd>>].session = sessName
               /\ db'[<<"tg", pupd>>].type = "user_prompt"
               /\ db'[<<"tg", pupd>>].origin = "telegram"
               /\ db'[<<"tg", pupd>>].tg_delivered = 1
               /\ sessName = HookSession =>
                    toolstate' = NoToolState /\ flag' = "fresh" /\ pane'.body = u.text
          /\ validateOTP(u.text) /\ otp.listener = "idle" /\ otp'.listener = "approved" =>
               sessName = findPendingOTPSession]_vars

\* C39: no sequence of chat messages makes the listener crash in the /auth
\* flow: authInProgress is unlocked once per acquisition, never when it is
\* not locked.
C39_AuthNeverCrashes ==
  /\ ~lsn.auth.crashed
  /\ lsn.auth.unlocks <= lsn.auth.locks

\* C31: the first pre-tool hook of the turn a new prompt starts finds an
\* empty tool state and creates a new live message; it never edits the
\* message of the turn before.
C31_NewTurnNewMessage ==
  [][/\ hpc["h2"] = "lock" /\ hpc'["h2"] = "show" => toolstate = NoToolState
     /\ hpc["h2"] = "show" /\ hpc'["h2"] = "save" /\ chat' # chat =>
          chat'[Len(chat')].op = "send"]_vars

\* the sends and edits of the live tool message m
LiveWrites(m) == {k \in DOMAIN chat : chat[k].op \in {"send", "edit"} /\ chat[k].id = m}

\* the lines of body a are the first lines of body b, which has more
IsOlder(a, b) == Len(a) < Len(b) /\ SubSeq(b, 1, Len(a) - 1) = SubSeq(a, 1, Len(a) - 1)

LastBodyIsState ==
  (\A p \in PreToolHooks : hpc[p] = "done") /\ toolstate.MsgID # 0 =>
    /\ LiveWrites(toolstate.MsgID) # {}
    /\ chat[MaxOf(LiveWrites(toolstate.MsgID))].text = formatToolMessage(toolstate)

NoStaleEdit ==
  Len(chat') = Len(chat) + 1 /\ chat'[Len(chat')].op = "edit" =>
    LET e == chat'[Len(chat')] IN
    LiveWrites(e.id) # {} => ~IsOlder(e.text, chat[MaxOf(LiveWrites(e.id))].text)

\* C32: when all hooks of the turn have finished, the body last written to
\* the live tool message is the rendering of the stored tool state, and no
\* edit computed from an older state follows an edit computed from a newer one.
C32_LiveBodyCurrent == []LastBodyIsState /\ [][NoStaleEdit]_vars

\* the uploads of a text by the delivery loop, its direct sends by pre-tool
\* hooks and its inserts into the live tool message
Uploads(id) ==
  Cardinality({k \in DOMAIN uploads[HookSession] : uploads[HookSession][k] = id})

DirectSends == Cardinality({k \in DOMAIN chat : chat[k].op = "text"})

Inserts ==
  LET Says(k) == IF chat[k].op \in {"send", "edit"}
                 THEN Cardinality({i \in 2..(Len(chat[k].text) - 1) : chat[k].text[i][1] = "says"})
                 ELSE 0
  IN IF chat = <<>> THEN 0 ELSE MaxOf({Says(k) : k \in DOMAIN chat})

SentOnce == \A id \in ToolTextIds : Uploads(id) + DirectSends + Inserts <= 1

ExternalIdKept ==
  \A id \in DOMAIN db :
    db[id].tg_msg_id # 0 => id \in DOMAIN db' /\ db'[id].tg_msg_id = db[id].tg_msg_id

\* C33: each assistant text block is sent to the chat at most once in total,
\* by the delivery loop or by a pre-tool hook, and the non-zero external id of
\* a row is never overwritten.
C33_TextSentOnce == []SentOnce /\ [][ExternalIdKept]_vars

====
